---------------------------- MODULE Spec2Model ----------------------------
(***************************************************************************)
(* A model of src/src/convert.rs: the in-memory transcode video_to_mp4.    *)
(*                                                                         *)
(* The codec backend (demuxer, decoder, encoder, muxer of rsmpeg/FFmpeg)   *)
(* is the environment.  Each call into it is one step of the model; what   *)
(* the call answers is chosen among the answers its API can give, and the  *)
(* code's reaction to each answer is translated from convert.rs.           *)
(***************************************************************************)
EXTENDS Integers, Sequences, FiniteSets, TLC

(***************************************************************************)
(* Bounds of the model.                                                    *)
(***************************************************************************)
\* Longest sequence of items the demuxer delivers before end of stream.
MaxPkts == 2
\* Calls of next_frame made by the iterator harness (SpecIter).
MaxCalls == 6

(***************************************************************************)
(* The input.  An item of the demuxer is a packet of stream si, or a read  *)
(* failure.  What the decoder makes of a packet is part of the input:      *)
(*   "ok"      the packet decodes to one frame,                            *)
(*   "badsend" the decoder rejects it in send_packet,                      *)
(*   "badrecv" the decoder accepts it and fails in the next receive_frame. *)
(* fmt is the pixel format of the frame an "ok" packet decodes to; a       *)
(* packet that decodes to no frame has no format to vary.                  *)
(***************************************************************************)
StreamIds == {0, 1}

Formats == {"yuv420p", "pal8"}

\* encode_context.pix_fmt, as set_pix_fmt(AV_PIX_FMT_YUV420P) sets it.
EncoderFormat == "yuv420p"

Packets == [si : StreamIds, kind : {"ok", "badsend", "badrecv"}, fmt : Formats]

ReadErr == [si |-> -1, kind |-> "readerr", fmt |-> "none"]

Items == {p \in Packets : p.kind # "ok" => p.fmt = EncoderFormat} \cup {ReadErr}

RECURSIVE SeqsUpTo(_, _)
SeqsUpTo(S, n) ==
    IF n = 0 THEN {<<>>}
    ELSE LET shorter == SeqsUpTo(S, n - 1)
         IN  shorter \cup {Append(s, x) : s \in {t \in shorter : Len(t) = n - 1}, x \in S}

Inputs == SeqsUpTo(Items, MaxPkts)

\* The inputs of a conversion that selects stream b.  Only the stream of a
\* packet decides whether next_frame drops it: what the decoder of stream b
\* would make of a packet of another stream is not varied.
InputsFor(b) ==
    {s \in Inputs :
        \A k \in DOMAIN s :
            (s[k] \in Packets /\ s[k].si # b) =>
                (s[k].kind = "ok" /\ s[k].fmt = EncoderFormat)}

\* Option<AVPacket>: None is 0, Some(p) is the position of p in the input.
None == 0

\* The stream's time_base and avg_frame_rate, which decode_video copies into
\* the decoder context.
StreamTimeBase == "1/100"
StreamFrameRate == "10/1"

VARIABLES
    pkts,          \* the items av_read_frame delivers, in order
    best,          \* find_best_stream's answer: a stream index, or -1 for none
    rd,            \* AVFormatContextInput: number of items read so far
    demuxEof,      \* the demuxer has answered "end of stream"
    stream_index,  \* AVFrameIter.stream_index
    frame_buffer,  \* AVFrameIter.frame_buffer (0: the empty AVFrame::new())
    dec,           \* AVFrameIter.decode_context: the decoder
    packet,        \* next_frame's local `packet`
    pc,            \* the statement the program is at
    nfTo,          \* where next_frame returns to
    nfRet,         \* what next_frame returned last
    calls,         \* harness: calls of next_frame made
    rets,          \* harness: what those calls returned, in order, each with
                   \* whether the demuxer had reported end of stream by then
    dst_frame,     \* encode_mp4's `dst_frame`, the scratch frame of the scaler
    first_frame,   \* encode_mp4's `first_frame`
    src_frame,     \* encode_frame's argument
    enc,           \* encode_mp4's `encode_context`: the encoder
    mux,           \* encode_mp4's `output_format_context`: the muxer
    strong,        \* strong count of the Arc around the output buffer
    out,           \* the output buffer: what the muxer wrote, in order
    frame_after,   \* the frame encode_write_frame is given (NoFrame: the flush)
    epkt,          \* encode_write_frame's local `packet`
    ewTo,          \* where encode_frame / encode_write_frame returns to
    ewRet,         \* what it returned last
    result,        \* what video_to_mp4 returned
    data,          \* input_format_context's `data`: the bytes of the input
    cur,           \* the cursor cur1 and cur2 share
    called,        \* the last call of a callback of the input, and its answer
    run,           \* the reads since the last seek that moved the cursor
    url,           \* upgrade_image_url's `url`
    require_large_image,  \* its `require_large_image`
    require_sinaimg,      \* its `require_sinaimg`
    upgraded,      \* what upgrade_image_url returned
    comment,       \* parse_comment's `s`
    parsed,        \* what parse_comment returned
    req,           \* http::request: what `build_request` builds
    attempt,       \* http::request: the loop's `attempt`
    tries,         \* http::request: the answers of send(), in order
    httpRet,       \* what http::request returned
    history_text,  \* main: the content of HISTORY_FILE, split at its newlines
    history,       \* main's `history`
    new_pics,      \* main's `new_pics`
    pics,          \* main's `pics`: the ids of the pics do_the_evil returned
    pic,           \* the place in `pics` of the loop's `pic`
    okFor,         \* the calls made for `pic` that returned Ok
    started,       \* the content of HISTORY_FILE when main started
    sentNow,       \* the ids send_pic returned Ok for, in order
    mainRet,       \* what main returned
    picArg,        \* format_caption's and send_pic's `pic`
    hot,           \* format_caption: the hot comments formatted so far
    msgs,          \* format_caption's `msgs`
    candidate,     \* download_image: the place of the loops in the candidates
    errors,        \* download_image's `errors`
    fetched,       \* the calls of download_image_with_referer, in order
    dlRet,         \* what download_image returned
    images,        \* send_pic's `images`
    captions,      \* send_pic's `captions`, and what is left of them
    route,         \* the send function send_pic chose
    sendAt,        \* the place of the send function in `images`
    tg,            \* the calls made to the Telegram API, in order
    sendRet,       \* what send_pic returned
    entries,       \* upload_comment_images: the entities of the comments, in order
    entry,         \* the place of its loops in `entries`
    db,            \* Database.imgs
    db_file,       \* the imgs of the database file
    uploads,       \* what was accepted and what was recorded, in order
    pass,          \* the calls of upload_comment_images made
    upRet,         \* what upload_comment_images returned
    log            \* the calls made into the backend, in order

\* The AVFrameIter and what next_frame works on.
iterVars == <<pkts, best, rd, demuxEof, stream_index, frame_buffer, dec, packet,
              nfTo, nfRet, log>>

\* The same without the log.
nfVars == <<pkts, best, rd, demuxEof, stream_index, frame_buffer, dec, packet,
            nfTo, nfRet>>

\* What only encode_mp4 works on.
encVars == <<dst_frame, first_frame, src_frame, enc, mux, strong, out, frame_after, epkt,
             ewTo, ewRet, result>>

\* What only the iterator harness works on.
harnessVars == <<calls, rets>>

\* What only the callbacks of the input work on.
ioVars == <<data, cur, called, run>>

\* What only upgrade_image_url works on.
urlVars == <<url, require_large_image, require_sinaimg, upgraded>>

\* What the bot works on, outside the conversion.
\* What only parse_comment works on.
parseVars == <<comment, parsed>>

\* What only http::request works on.
httpVars == <<req, attempt, tries, httpRet>>

\* What only main works on.
mainVars == <<history_text, history, new_pics, pics, pic, okFor, started, sentNow, mainRet>>

\* What only format_caption works on.
capVars == <<picArg, hot, msgs>>

\* What only download_image works on.
dlVars == <<candidate, errors, fetched, dlRet>>

\* What only send_pic and the send functions work on.
sendVars == <<images, captions, route, sendAt, tg, sendRet>>

\* What only upload_comment_images works on.
upVars == <<entries, entry, db, db_file, uploads, pass, upRet>>

tgVars == <<capVars, dlVars, sendVars, upVars>>

botVars == <<urlVars, parseVars, httpVars, mainVars, tgVars>>

vars == <<pkts, best, rd, demuxEof, stream_index, frame_buffer, dec, packet, pc,
          nfTo, nfRet, calls, rets, dst_frame, first_frame, src_frame, enc, mux, strong, out,
          frame_after, epkt, ewTo, ewRet, result, data, cur, called, run, log, botVars>>

\* A call into the backend: the operation, its argument (a packet or a frame,
\* 0 when there is none) and what it answered.
\* The frame decoded from packet f: its pixel format, its size (every frame
\* of another size than the one before) and its presentation time.
FrameFormat(f) == pkts[f].fmt
FrameWidth(f) == 16 * f
FrameHeight(f) == 8 * f
FramePts(f) == 40 * f

Ev(op, arg, ans) == [op |-> op, arg |-> arg, ans |-> ans]

\* What a call that either works or fails answered.
Answer(ok) == IF ok THEN "Ok" ELSE "Err"

NoRet == [kind |-> "none", frame |-> 0]
RetSome(f) == [kind |-> "Some", frame |-> f]
RetNone == [kind |-> "None", frame |-> 0]
RetErr == [kind |-> "Err", frame |-> 0]

\* A decoder as decode_video opens it.  buf: the frames decoded and not yet
\* received; draining: a flush signal was accepted; poison: the packet taken
\* last fails in the next receive_frame; starved: receive_frame answered
\* "needs more input" and nothing was sent since.
DecoderNew == [buf |-> <<>>, draining |-> FALSE, poison |-> FALSE, starved |-> FALSE,
               time_base |-> StreamTimeBase, framerate |-> StreamFrameRate]

(***************************************************************************)
(* AVFrameIter::next_frame                                                 *)
(***************************************************************************)

\* A faulty SkipPacket: no packet is dropped, whatever its stream.
SkipPacketNever(x, idx) == FALSE

\* The inner loop's match on read_packet's answer: a packet of another
\* stream is dropped, anything else (a packet of the stream, or None) breaks.
SkipPacket(x, idx) == x # None /\ pkts[x].si # idx

\* A faulty OnSendPacket: "already flushed" is an error like any other.
OnSendPacketStrict(r) ==
    IF r = "Ok" THEN "continue" ELSE "return_err"

\* The match on send_packet's answer.
OnSendPacket(r) ==
    IF r \in {"Ok", "DecoderFlushedError"} THEN "continue" ELSE "return_err"

\* A faulty OnReceiveFrame: "needs more input" ends the sequence.
OnReceiveFrameDrainEnds(r) ==
    CASE r = "Ok" -> "break_some"
      [] r \in {"DecoderDrainError", "DecoderFlushedError"} -> "break_none"
      [] OTHER -> "break_err"

\* A faulty OnReceiveFrame: "fully flushed" is an error like any other.
OnReceiveFrameFlushedErr(r) ==
    CASE r = "Ok" -> "break_some"
      [] r = "DecoderDrainError" -> "loop"
      [] OTHER -> "break_err"

\* The match on receive_frame's answer.
OnReceiveFrame(r) ==
    CASE r = "Ok" -> "break_some"
      [] r = "DecoderDrainError" -> "loop"
      [] r = "DecoderFlushedError" -> "break_none"
      [] OTHER -> "break_err"

NfReturn(v) ==
    /\ nfRet' = v
    /\ pc' = nfTo

\* format_context.read_packet(): the next item, or None at end of stream
\* (and again None on every later call).
ReadPacketAnswer == IF rd < Len(pkts) THEN rd + 1 ELSE None

\* read_packet()? fails: next_frame returns the error.
NfReadErr ==
    /\ pc = "nf_read"
    /\ ReadPacketAnswer # None
    /\ pkts[ReadPacketAnswer] = ReadErr
    /\ rd' = rd + 1
    /\ log' = Append(log, Ev("read_packet", rd + 1, "Err"))
    /\ NfReturn(RetErr)
    /\ UNCHANGED <<pkts, best, demuxEof, stream_index, frame_buffer, dec, packet,
                   nfTo, harnessVars, ioVars, botVars, encVars>>

\* A faulty NfReadSkip: a packet of another stream ends the inner loop as
\* the end of the stream does, with no packet.
NfReadSkipAsEnd ==
    /\ pc = "nf_read"
    /\ ReadPacketAnswer # None
    /\ pkts[ReadPacketAnswer] # ReadErr
    /\ SkipPacket(ReadPacketAnswer, stream_index)
    /\ rd' = rd + 1
    /\ packet' = None
    /\ log' = Append(log, Ev("read_packet", rd + 1, "Some"))
    /\ pc' = "nf_send"
    /\ UNCHANGED <<pkts, best, demuxEof, stream_index, frame_buffer, dec, nfTo,
                   nfRet, harnessVars, ioVars, botVars, encVars>>

\* read_packet() gives a packet of another stream: the inner loop goes on.
NfReadSkip ==
    /\ pc = "nf_read"
    /\ ReadPacketAnswer # None
    /\ pkts[ReadPacketAnswer] # ReadErr
    /\ SkipPacket(ReadPacketAnswer, stream_index)
    /\ rd' = rd + 1
    /\ log' = Append(log, Ev("read_packet", rd + 1, "Some"))
    /\ UNCHANGED <<pkts, best, demuxEof, stream_index, frame_buffer, dec, packet,
                   pc, nfTo, nfRet, harnessVars, ioVars, botVars, encVars>>

\* A faulty NfReadBreak: at the end of the stream next_frame returns
\* Ok(None) at once, and the decoder is never flushed.
NfReadBreakNoDrain ==
    /\ pc = "nf_read"
    /\ ReadPacketAnswer # None => pkts[ReadPacketAnswer] # ReadErr
    /\ ~SkipPacket(ReadPacketAnswer, stream_index)
    /\ packet' = ReadPacketAnswer
    /\ rd' = IF ReadPacketAnswer = None THEN rd ELSE rd + 1
    /\ demuxEof' = (demuxEof \/ ReadPacketAnswer = None)
    /\ log' = Append(log, Ev("read_packet", ReadPacketAnswer,
                              IF ReadPacketAnswer = None THEN "None" ELSE "Some"))
    /\ IF ReadPacketAnswer = None
       THEN NfReturn(RetNone)
       ELSE pc' = "nf_send" /\ UNCHANGED nfRet
    /\ UNCHANGED <<pkts, best, stream_index, frame_buffer, dec, nfTo,
                   harnessVars, ioVars, botVars, encVars>>

\* read_packet() gives a packet of the stream, or None: break with it.
NfReadBreak ==
    /\ pc = "nf_read"
    /\ ReadPacketAnswer # None => pkts[ReadPacketAnswer] # ReadErr
    /\ ~SkipPacket(ReadPacketAnswer, stream_index)
    /\ packet' = ReadPacketAnswer
    /\ rd' = IF ReadPacketAnswer = None THEN rd ELSE rd + 1
    /\ demuxEof' = (demuxEof \/ ReadPacketAnswer = None)
    /\ log' = Append(log, Ev("read_packet", ReadPacketAnswer,
                              IF ReadPacketAnswer = None THEN "None" ELSE "Some"))
    /\ pc' = "nf_send"
    /\ UNCHANGED <<pkts, best, stream_index, frame_buffer, dec, nfTo, nfRet,
                   harnessVars, ioVars, botVars, encVars>>

\* avcodec_send_packet's answers for `p` with the decoder in state d: a
\* draining decoder answers "already flushed" (AVERROR_EOF) to everything; a
\* decoder with output left that has not asked for input may refuse a packet
\* (AVERROR(EAGAIN)); a flush signal is always accepted.
SendPacketAnswers(d, p) ==
    IF d.draining THEN {"DecoderFlushedError"}
    ELSE IF p = None THEN {"Ok"}
    ELSE (IF pkts[p].kind = "badsend" THEN {"SendPacketError"} ELSE {"Ok"})
         \cup (IF d.buf # <<>> /\ ~d.starved THEN {"DecoderFullError"} ELSE {})

\* The decoder after send_packet(p) answered r.
DecoderAfterSend(d, p, r) ==
    IF r # "Ok" THEN d
    ELSE IF p = None THEN [d EXCEPT !.draining = TRUE, !.starved = FALSE]
    ELSE IF pkts[p].kind = "badrecv" THEN [d EXCEPT !.poison = TRUE, !.starved = FALSE]
    ELSE [d EXCEPT !.buf = Append(@, p), !.starved = FALSE]

\* decode_context.send_packet(packet.as_ref()) and the match on its answer.
NfSend ==
    /\ pc = "nf_send"
    /\ \E r \in SendPacketAnswers(dec, packet) :
        /\ dec' = DecoderAfterSend(dec, packet, r)
        /\ log' = Append(log, Ev("send_packet", packet, r))
        /\ IF OnSendPacket(r) = "continue"
           THEN pc' = "nf_recv" /\ UNCHANGED nfRet
           ELSE NfReturn(RetErr)
    /\ UNCHANGED <<pkts, best, rd, demuxEof, stream_index, frame_buffer, packet,
                   nfTo, harnessVars, ioVars, botVars, encVars>>

\* avcodec_receive_frame's answers with the decoder in state d: a decoder
\* that is not draining may hold a decoded frame back ("needs more input").
ReceiveFrameAnswers(d) ==
    IF d.poison THEN {"ReceiveFrameError"}
    ELSE IF d.draining
         THEN (IF d.buf # <<>> THEN {"Ok"} ELSE {"DecoderFlushedError"})
         ELSE {"DecoderDrainError"} \cup (IF d.buf # <<>> THEN {"Ok"} ELSE {})

\* The decoder after receive_frame answered r.
DecoderAfterReceive(d, r) ==
    CASE r = "Ok" -> [d EXCEPT !.buf = Tail(@)]
      [] r = "DecoderDrainError" -> [d EXCEPT !.starved = TRUE]
      [] r = "ReceiveFrameError" -> [d EXCEPT !.poison = FALSE]
      [] OTHER -> d

\* decode_context.receive_frame() and the match on its answer.
NfRecv ==
    /\ pc = "nf_recv"
    /\ \E r \in ReceiveFrameAnswers(dec) :
        LET todo == OnReceiveFrame(r) IN
        /\ dec' = DecoderAfterReceive(dec, r)
        /\ frame_buffer' = IF todo = "break_some" THEN Head(dec.buf) ELSE frame_buffer
        /\ log' = Append(log, Ev("receive_frame", IF r = "Ok" THEN Head(dec.buf) ELSE 0, r))
        /\ CASE todo = "break_some" -> NfReturn(RetSome(Head(dec.buf)))
             [] todo = "loop" -> pc' = "nf_read" /\ UNCHANGED nfRet
             [] todo = "break_none" -> NfReturn(RetNone)
             [] OTHER -> NfReturn(RetErr)
    /\ UNCHANGED <<pkts, best, rd, demuxEof, stream_index, packet, nfTo, harnessVars, ioVars, botVars, encVars>>

NextFrame == NfReadErr \/ NfReadSkip \/ NfReadBreak \/ NfSend \/ NfRecv

(***************************************************************************)
(* encode_write_frame, and the closure encode_frame of encode_mp4          *)
(***************************************************************************)
\* Result<()>
Ok == "Ok"
Err == "Err"

EncoderNone == [state |-> "none", buf |-> <<>>, flushed |-> FALSE, pix_fmt |-> "none",
                width |-> 0, height |-> 0, time_base |-> "none", framerate |-> "none"]

\* AVFrame::new(): no buffer, no format, no size, pts unset.
NoPts == -1
NoDst == [allocs |-> 0, format |-> "none", width |-> 0, height |-> 0, pts |-> NoPts,
          data |-> None]

\* frame_after: a reference to the source frame, or to dst_frame; the
\* Option<&AVFrame> of encode_write_frame is None for the flush.
NoFrame == [obj |-> "none", id |-> None]
TheSrc(f) == [obj |-> "src", id |-> f]
TheDst == [obj |-> "dst", id |-> None]

\* The frame a reference designates, as the encoder reads it.
Deref(r) ==
    CASE r.obj = "src" -> [data |-> r.id, format |-> FrameFormat(r.id),
                            width |-> FrameWidth(r.id), height |-> FrameHeight(r.id),
                            pts |-> FramePts(r.id)]
      [] r.obj = "dst" -> [data |-> dst_frame.data, format |-> dst_frame.format,
                            width |-> dst_frame.width, height |-> dst_frame.height,
                            pts |-> dst_frame.pts]
      [] OTHER -> [data |-> None, format |-> "none", width |-> 0, height |-> 0,
                   pts |-> NoPts]

MuxNone == [alive |-> FALSE, streams |-> 0, codecpar |-> "none", header |-> 0,
            trailer |-> 0]

NoPacket == [id |-> 0, si |-> -1, tb |-> "none"]

EwReturn(v) ==
    /\ ewRet' = v
    /\ pc' = ewTo

\* The closure's test: is the source frame already in the encoder's format?
SameFormat(fmt) == fmt = dst_frame.format

\* A faulty Scaled: the scratch frame keeps the pts it had.
ScaledKeepsPts(d, f) == [d EXCEPT !.data = f]

\* dst_frame after scale_frame(src_frame, 0, height, &mut dst_frame) and
\* dst_frame.set_pts(src_frame.pts): the picture of f, in the format and
\* size dst_frame was allocated with, and the pts of f.
Scaled(d, f) == [d EXCEPT !.data = f, !.pts = FramePts(f)]

\* encode_frame, first half: a frame in the encoder's format is passed on as
\* it is, any other is scaled into dst_frame; scale_frame()? may fail.
EfConvert ==
    /\ pc = "ef_convert"
    /\ IF SameFormat(FrameFormat(src_frame))
       THEN /\ frame_after' = TheSrc(src_frame)
            /\ pc' = "ew_send"
            /\ UNCHANGED <<ewRet, log, dst_frame>>
       ELSE \E ok \in BOOLEAN :
            /\ log' = Append(log, Ev("scale_frame", src_frame, Answer(ok)))
            /\ IF ok
               THEN /\ dst_frame' = Scaled(dst_frame, src_frame)
                    /\ frame_after' = TheDst
                    /\ pc' = "ew_send"
                    /\ UNCHANGED ewRet
               ELSE EwReturn(Err) /\ UNCHANGED <<frame_after, dst_frame>>
    /\ UNCHANGED <<nfVars, harnessVars, ioVars, botVars, first_frame, src_frame, enc, mux,
                   strong, out, epkt, ewTo, result>>

\* avcodec_send_frame's answers for `f` with the encoder in state e.
SendFrameAnswers(e, f) ==
    IF e.flushed THEN {"EncoderFlushedError"} ELSE {"Ok", "SendFrameError"}

\* The encoder after send_frame(f) answered r.
EncoderAfterSend(e, f, r) ==
    IF r # "Ok" THEN e
    ELSE IF f = None THEN [e EXCEPT !.flushed = TRUE]
    ELSE [e EXCEPT !.buf = Append(@, f)]

\* encode_context.send_frame(frame_after)?
EwSend ==
    /\ pc = "ew_send"
    /\ \E r \in SendFrameAnswers(enc, Deref(frame_after).data) :
        /\ enc' = EncoderAfterSend(enc, Deref(frame_after).data, r)
        /\ log' = Append(log, Ev("send_frame", Deref(frame_after).data, r))
        /\ IF r = "Ok"
           THEN pc' = "ew_recv" /\ UNCHANGED ewRet
           ELSE EwReturn(Err)
    /\ UNCHANGED <<nfVars, harnessVars, ioVars, botVars, dst_frame, first_frame, src_frame, mux,
                   strong, out, frame_after, epkt, ewTo, result>>

\* avcodec_receive_packet's answers with the encoder in state e: an encoder
\* that is not flushed may hold a packet back ("needs more input").
ReceivePacketAnswers(e) ==
    (IF e.buf # <<>> THEN {"Ok"} ELSE {})
    \cup (IF ~e.flushed THEN {"EncoderDrainError"} ELSE {})
    \cup (IF e.flushed /\ e.buf = <<>> THEN {"EncoderFlushedError"} ELSE {})
    \cup {"ReceivePacketError"}

\* The match on receive_packet's answer.
OnReceivePacket(r) ==
    CASE r = "Ok" -> "packet"
      [] r \in {"EncoderDrainError", "EncoderFlushedError"} -> "break"
      [] OTHER -> "return_err"

\* encode_context.receive_packet() and the match on its answer.
EwRecv ==
    /\ pc = "ew_recv"
    /\ \E r \in ReceivePacketAnswers(enc) :
        LET todo == OnReceivePacket(r) IN
        /\ enc' = IF r = "Ok" THEN [enc EXCEPT !.buf = Tail(@)] ELSE enc
        /\ epkt' = IF r = "Ok" THEN [id |-> Head(enc.buf), si |-> -1, tb |-> "encoder"]
                   ELSE epkt
        /\ log' = Append(log, Ev("receive_packet", IF r = "Ok" THEN Head(enc.buf) ELSE 0, r))
        /\ CASE todo = "packet" -> pc' = "ew_stamp" /\ UNCHANGED ewRet
             [] todo = "break" -> EwReturn(Ok)
             [] OTHER -> EwReturn(Err)
    /\ UNCHANGED <<nfVars, harnessVars, ioVars, botVars, dst_frame, first_frame, src_frame, mux,
                   strong, out, frame_after, ewTo, result>>

\* A faulty EwStamp: the stream index is set, the timestamps are left in
\* the encoder's time base.
EwStampKeepsTimeBase ==
    /\ pc = "ew_stamp"
    /\ IF mux.streams > 0
       THEN /\ epkt' = [epkt EXCEPT !.si = 0]
            /\ pc' = "ew_write"
            /\ UNCHANGED ewRet
       ELSE EwReturn(Err) /\ UNCHANGED epkt
    /\ UNCHANGED <<nfVars, harnessVars, ioVars, botVars, dst_frame, first_frame, src_frame, enc, mux,
                   strong, out, frame_after, ewTo, result, log>>

\* packet.set_stream_index(out_stream_index); packet.rescale_ts(encoder time
\* base, time base of streams().get(out_stream_index).context(..)?).
EwStamp ==
    /\ pc = "ew_stamp"
    /\ IF mux.streams > 0
       THEN /\ epkt' = [epkt EXCEPT !.si = 0, !.tb = "stream"]
            /\ pc' = "ew_write"
            /\ UNCHANGED ewRet
       ELSE EwReturn(Err) /\ UNCHANGED epkt
    /\ UNCHANGED <<nfVars, harnessVars, ioVars, botVars, dst_frame, first_frame, src_frame, enc, mux,
                   strong, out, frame_after, ewTo, result, log>>

\* av_interleaved_write_frame's answers: 0, or a negative error code
\* (-22: invalid argument, -5: input/output error).
WriteAnswers == {0, -22, -5}

WriteAnswerName(code) ==
    CASE code = 0 -> "Ok"
      [] code = -22 -> "InterleavedWriteFrameError(-22)"
      [] OTHER -> "InterleavedWriteFrameError"

\* A unit of the output buffer: the header, a packet, the trailer.
Written(what, id) == [what |-> what, id |-> id]

\* A faulty OnWrite: no error of the writer is tolerated.
OnWriteStrict(code) ==
    IF code = 0 THEN Ok ELSE Err

\* The match on interleaved_write_frame's answer, followed by `?`.
OnWrite(code) ==
    IF code = 0 \/ code = -22 THEN Ok ELSE Err

\* output_format_context.interleaved_write_frame(&mut packet)
EwWrite ==
    /\ pc = "ew_write"
    /\ \E code \in WriteAnswers :
        /\ out' = IF code = 0 THEN Append(out, Written("packet", epkt.id)) ELSE out
        /\ log' = Append(log, Ev("write_packet", epkt.id, WriteAnswerName(code)))
        /\ IF OnWrite(code) = Ok
           THEN pc' = "ew_recv" /\ UNCHANGED ewRet
           ELSE EwReturn(Err)
    /\ UNCHANGED <<nfVars, harnessVars, ioVars, botVars, dst_frame, first_frame, src_frame, enc, mux,
                   strong, frame_after, epkt, ewTo, result>>

EncodeWriteFrame == EfConvert \/ EwSend \/ EwRecv \/ EwStamp \/ EwWrite

(***************************************************************************)
(* video_to_mp4, decode_video and encode_mp4                               *)
(***************************************************************************)
NoResult == [kind |-> "none", why |-> "", bytes |-> <<>>]

\* An Err leaves the function through `?`: every local is dropped, the muxer
\* and with it the two callbacks, and the orchestrator's own Arc.
Fail(why) ==
    /\ pc' = "done"
    /\ result' = [kind |-> "Err", why |-> why, bytes |-> <<>>]
    /\ mux' = [mux EXCEPT !.alive = FALSE]
    /\ strong' = 0

Goto(label) ==
    /\ pc' = label
    /\ UNCHANGED <<result, mux, strong>>

\* A step of encode_mp4 that calls the backend once and leaves on failure.
Step(at, op, next) ==
    /\ pc = at
    /\ \E ok \in BOOLEAN :
        /\ log' = Append(log, Ev(op, 0, Answer(ok)))
        /\ IF ok THEN Goto(next) ELSE Fail(op)

\* input_format_context(data)?
OpenInput ==
    /\ Step("open_input", "open_input", "decode_video")
    /\ UNCHANGED <<nfVars, harnessVars, ioVars, botVars, dst_frame, first_frame, src_frame, enc, out,
                   frame_after, epkt, ewTo, ewRet>>

\* A faulty decode_video: with no video stream it falls back on stream 0.
DecodeVideoFallsBack ==
    /\ pc = "decode_video"
    /\ \E ok \in BOOLEAN :
        /\ log' = Append(log, Ev("open_decoder", 0, Answer(ok)))
        /\ IF ok
           THEN /\ stream_index' = (IF best = -1 THEN 0 ELSE best)
                /\ dec' = DecoderNew
                /\ Goto("first_call")
           ELSE Fail("open_decoder") /\ UNCHANGED <<stream_index, dec>>
    /\ UNCHANGED <<pkts, best, rd, demuxEof, frame_buffer, packet, nfTo, nfRet,
                   harnessVars, ioVars, botVars, dst_frame, first_frame, src_frame, enc, out,
                   frame_after, epkt, ewTo, ewRet>>

\* decode_video: find_best_stream(VIDEO)?.context(..)?, then the decoder is
\* created, given the stream's parameters and opened.
DecodeVideo ==
    /\ pc = "decode_video"
    /\ IF best = -1
       THEN /\ log' = Append(log, Ev("find_best_stream", 0, "None"))
            /\ Fail("Failed to find the best stream")
            /\ UNCHANGED <<stream_index, dec>>
       ELSE \E ok \in BOOLEAN :
            /\ log' = Append(log, Ev("open_decoder", 0, Answer(ok)))
            /\ IF ok
               THEN stream_index' = best /\ dec' = DecoderNew /\ Goto("first_call")
               ELSE Fail("open_decoder") /\ UNCHANGED <<stream_index, dec>>
    /\ UNCHANGED <<pkts, best, rd, demuxEof, frame_buffer, packet, nfTo, nfRet,
                   harnessVars, ioVars, botVars, dst_frame, first_frame, src_frame, enc, out,
                   frame_after, epkt, ewTo, ewRet>>

\* let first_frame = src.next_frame()... : the call.
FirstCall ==
    /\ pc = "first_call"
    /\ nfTo' = "first_ret"
    /\ pc' = "nf_read"
    /\ UNCHANGED <<pkts, best, rd, demuxEof, stream_index, frame_buffer, dec, packet,
                   nfRet, harnessVars, ioVars, botVars, encVars, log>>

\* ...?.context("Failed to get first frame")?
FirstRet ==
    /\ pc = "first_ret"
    /\ CASE nfRet.kind = "Err" -> Fail("next_frame") /\ UNCHANGED first_frame
         [] nfRet.kind = "None" -> Fail("Failed to get first frame") /\ UNCHANGED first_frame
         [] OTHER -> first_frame' = nfRet.frame /\ Goto("output_context")
    /\ UNCHANGED <<nfVars, harnessVars, ioVars, botVars, dst_frame, src_frame, enc, out, frame_after,
                   epkt, ewTo, ewRet, log>>

\* output_format_context()?: the buffer, a clone of its Arc moved into the
\* write callback and one into the seek callback, and the muxer that owns both.
OutputContext ==
    /\ pc = "output_context"
    /\ \E ok \in BOOLEAN :
        /\ log' = Append(log, Ev("output_context", 0, Answer(ok)))
        /\ IF ok
           THEN /\ strong' = 3
                /\ mux' = [MuxNone EXCEPT !.alive = TRUE]
                /\ pc' = "find_encoder"
                /\ UNCHANGED result
           ELSE Fail("output_context")
    /\ UNCHANGED <<nfVars, harnessVars, ioVars, botVars, dst_frame, first_frame, src_frame, enc, out,
                   frame_after, epkt, ewTo, ewRet>>

\* AVCodec::find_encoder_by_name(c"libx264").context(..)?
FindEncoder ==
    /\ Step("find_encoder", "find_encoder", "configure")
    /\ UNCHANGED <<nfVars, harnessVars, ioVars, botVars, dst_frame, first_frame, src_frame, enc, out,
                   frame_after, epkt, ewTo, ewRet>>

\* A faulty EncoderConfigured: width and height are swapped.
EncoderConfiguredSwapped(f, d) ==
    [EncoderNone EXCEPT !.state = "configured", !.pix_fmt = EncoderFormat,
                        !.width = FrameHeight(f), !.height = FrameWidth(f),
                        !.time_base = d.time_base, !.framerate = d.framerate]

\* The encoder context after the setters: the size of the first frame `f`,
\* time base and frame rate of the decoder context `d`, YUV420P.
EncoderConfigured(f, d) ==
    [EncoderNone EXCEPT !.state = "configured", !.pix_fmt = EncoderFormat,
                        !.width = FrameWidth(f), !.height = FrameHeight(f),
                        !.time_base = d.time_base, !.framerate = d.framerate]

\* AVCodecContext::new and the setters; av_opt_set(preset) < 0 bails.
Configure ==
    /\ pc = "configure"
    /\ \E ok \in BOOLEAN :
        /\ log' = Append(log, Ev("configure", 0, Answer(ok)))
        /\ IF ok
           THEN enc' = EncoderConfigured(first_frame, dec) /\ Goto("open_encoder")
           ELSE Fail("Failed to set preset") /\ UNCHANGED enc
    /\ UNCHANGED <<nfVars, harnessVars, ioVars, botVars, dst_frame, first_frame, src_frame, out,
                   frame_after, epkt, ewTo, ewRet>>

\* encode_context.open(None)?
OpenEncoder ==
    /\ pc = "open_encoder"
    /\ \E ok \in BOOLEAN :
        /\ log' = Append(log, Ev("open_encoder", 0, Answer(ok)))
        /\ IF ok
           THEN enc' = [enc EXCEPT !.state = "open"] /\ Goto("alloc_dst")
           ELSE Fail("open_encoder") /\ UNCHANGED enc
    /\ UNCHANGED <<nfVars, harnessVars, ioVars, botVars, dst_frame, first_frame, src_frame, out,
                   frame_after, epkt, ewTo, ewRet>>

\* dst_frame after set_format(encode_context.pix_fmt), set_width, set_height
\* and alloc_buffer().
Allocated(d, e) ==
    [NoDst EXCEPT !.allocs = d.allocs + 1, !.format = e.pix_fmt,
                  !.width = e.width, !.height = e.height]

\* A faulty AllocDst: the header is written next, before any stream exists.
AllocDstSkipsStream ==
    /\ pc = "alloc_dst"
    /\ \E ok \in BOOLEAN :
        /\ log' = Append(log, Ev("alloc_buffer", 0, Answer(ok)))
        /\ IF ok
           THEN dst_frame' = Allocated(dst_frame, enc) /\ Goto("write_header")
           ELSE Fail("alloc_buffer") /\ UNCHANGED dst_frame
    /\ UNCHANGED <<nfVars, harnessVars, ioVars, botVars, first_frame, src_frame, enc, out,
                   frame_after, epkt, ewTo, ewRet>>

\* dst_frame: AVFrame::new(), format and size of the encoder, alloc_buffer()?
AllocDst ==
    /\ pc = "alloc_dst"
    /\ \E ok \in BOOLEAN :
        /\ log' = Append(log, Ev("alloc_buffer", 0, Answer(ok)))
        /\ IF ok
           THEN dst_frame' = Allocated(dst_frame, enc) /\ Goto("new_stream")
           ELSE Fail("alloc_buffer") /\ UNCHANGED dst_frame
    /\ UNCHANGED <<nfVars, harnessVars, ioVars, botVars, first_frame, src_frame, enc, out,
                   frame_after, epkt, ewTo, ewRet>>

\* new_stream() and out_stream.set_codecpar(encode_context.extract_codecpar())
NewStream ==
    /\ pc = "new_stream"
    /\ mux' = [mux EXCEPT !.streams = @ + 1, !.codecpar = enc.state]
    /\ log' = Append(log, Ev("new_stream", 0, "Ok"))
    /\ pc' = "write_header"
    /\ UNCHANGED <<nfVars, harnessVars, ioVars, botVars, dst_frame, first_frame, src_frame, enc, strong,
                   out, frame_after, epkt, ewTo, ewRet, result>>

\* output_format_context.write_header(&mut None)?
WriteHeader ==
    /\ pc = "write_header"
    /\ \E ok \in BOOLEAN :
        /\ log' = Append(log, Ev("write_header", 0, Answer(ok)))
        /\ IF ok
           THEN /\ mux' = [mux EXCEPT !.header = @ + 1]
                /\ out' = Append(out, Written("header", 0))
                /\ pc' = "sws_context"
                /\ UNCHANGED <<result, strong>>
           ELSE Fail("write_header") /\ UNCHANGED out
    /\ UNCHANGED <<nfVars, harnessVars, ioVars, botVars, dst_frame, first_frame, src_frame, enc,
                   frame_after, epkt, ewTo, ewRet>>

\* SwsContext::get_context(..).context("Failed to get sws_context")?
GetSwsContext ==
    /\ Step("sws_context", "sws_get_context", "encode_first")
    /\ UNCHANGED <<nfVars, harnessVars, ioVars, botVars, dst_frame, first_frame, src_frame, enc, out,
                   frame_after, epkt, ewTo, ewRet>>

\* A faulty EncodeFirst: the first frame only sizes the encoder and is not
\* encoded.
EncodeFirstSkipped ==
    /\ pc = "encode_first"
    /\ pc' = "loop_call"
    /\ UNCHANGED <<nfVars, harnessVars, ioVars, botVars, dst_frame, first_frame, src_frame, enc, mux,
                   strong, out, frame_after, epkt, ewTo, ewRet, result, log>>

\* encode_frame(first_frame)...: the call.
EncodeFirst ==
    /\ pc = "encode_first"
    /\ src_frame' = first_frame
    /\ ewTo' = "encoded"
    /\ pc' = "ef_convert"
    /\ UNCHANGED <<nfVars, harnessVars, ioVars, botVars, dst_frame, first_frame, enc, mux, strong, out,
                   frame_after, epkt, ewRet, result, log>>

\* A faulty Encoded: the result of encode_frame is dropped.
EncodedIgnoresErr ==
    /\ pc = "encoded"
    /\ Goto("loop_call")
    /\ UNCHANGED <<nfVars, harnessVars, ioVars, botVars, dst_frame, first_frame, src_frame, enc, out,
                   frame_after, epkt, ewTo, ewRet, log>>

\* ...? after encode_frame(first_frame) and after encode_frame(src_frame):
\* on Ok the while loop tests its condition next.
Encoded ==
    /\ pc = "encoded"
    /\ IF ewRet = Ok THEN Goto("loop_call") ELSE Fail("encode_frame")
    /\ UNCHANGED <<nfVars, harnessVars, ioVars, botVars, dst_frame, first_frame, src_frame, enc, out,
                   frame_after, epkt, ewTo, ewRet, log>>

\* while let Some(src_frame) = src.next_frame()? : the call.
LoopCall ==
    /\ pc = "loop_call"
    /\ nfTo' = "loop_ret"
    /\ pc' = "nf_read"
    /\ UNCHANGED <<pkts, best, rd, demuxEof, stream_index, frame_buffer, dec, packet,
                   nfRet, harnessVars, ioVars, botVars, encVars, log>>

\* A faulty LoopRet: the loop ends on Err as it does on None
\* (while let Ok(Some(src_frame)) = src.next_frame()).
LoopRetSwallowsErr ==
    /\ pc = "loop_ret"
    /\ IF nfRet.kind = "Some"
       THEN /\ src_frame' = nfRet.frame
            /\ ewTo' = "encoded"
            /\ Goto("ef_convert")
       ELSE Goto("flush") /\ UNCHANGED <<src_frame, ewTo>>
    /\ UNCHANGED <<nfVars, harnessVars, ioVars, botVars, dst_frame, first_frame, enc, out, frame_after,
                   epkt, ewRet, log>>

\* A faulty LoopRet: a decoder that has no second frame is an error, as it is
\* for the first.
LoopRetNoneIsErr ==
    /\ pc = "loop_ret"
    /\ CASE nfRet.kind = "Err" -> Fail("next_frame") /\ UNCHANGED <<src_frame, ewTo>>
         [] nfRet.kind = "None" -> Fail("Failed to get frame") /\ UNCHANGED <<src_frame, ewTo>>
         [] OTHER -> /\ src_frame' = nfRet.frame
                     /\ ewTo' = "encoded"
                     /\ Goto("ef_convert")
    /\ UNCHANGED <<nfVars, harnessVars, ioVars, botVars, dst_frame, first_frame, enc, out, frame_after,
                   epkt, ewRet, log>>

\* A faulty LoopRet: when the decoder has no further frame the loop asks its
\* condition again instead of leaving.
LoopRetNoneSpins ==
    /\ pc = "loop_ret"
    /\ CASE nfRet.kind = "Err" -> Fail("next_frame") /\ UNCHANGED <<src_frame, ewTo>>
         [] nfRet.kind = "None" -> Goto("loop_ret") /\ UNCHANGED <<src_frame, ewTo>>
         [] OTHER -> /\ src_frame' = nfRet.frame
                     /\ ewTo' = "encoded"
                     /\ Goto("ef_convert")
    /\ UNCHANGED <<nfVars, harnessVars, ioVars, botVars, dst_frame, first_frame, enc, out, frame_after,
                   epkt, ewRet, log>>

\* The loop's condition: Err leaves the function, None leaves the loop,
\* Some(src_frame) runs the body encode_frame(src_frame).
LoopRet ==
    /\ pc = "loop_ret"
    /\ CASE nfRet.kind = "Err" -> Fail("next_frame") /\ UNCHANGED <<src_frame, ewTo>>
         [] nfRet.kind = "None" -> Goto("flush") /\ UNCHANGED <<src_frame, ewTo>>
         [] OTHER -> /\ src_frame' = nfRet.frame
                     /\ ewTo' = "encoded"
                     /\ Goto("ef_convert")
    /\ UNCHANGED <<nfVars, harnessVars, ioVars, botVars, dst_frame, first_frame, enc, out, frame_after,
                   epkt, ewRet, log>>

\* A faulty Flush: the trailer is written without flushing the encoder.
FlushSkipped ==
    /\ pc = "flush"
    /\ pc' = "write_trailer"
    /\ UNCHANGED <<nfVars, harnessVars, ioVars, botVars, dst_frame, first_frame, src_frame, enc, mux,
                   strong, out, frame_after, epkt, ewTo, ewRet, result, log>>

\* encode_write_frame(None, ..)...: the call.
Flush ==
    /\ pc = "flush"
    /\ frame_after' = NoFrame
    /\ ewTo' = "flushed"
    /\ pc' = "ew_send"
    /\ UNCHANGED <<nfVars, harnessVars, ioVars, botVars, dst_frame, first_frame, src_frame, enc, mux,
                   strong, out, epkt, ewRet, result, log>>

\* ...? after the flush.
Flushed ==
    /\ pc = "flushed"
    /\ IF ewRet = Ok THEN Goto("write_trailer") ELSE Fail("encode_write_frame")
    /\ UNCHANGED <<nfVars, harnessVars, ioVars, botVars, dst_frame, first_frame, src_frame, enc, out,
                   frame_after, epkt, ewTo, ewRet, log>>

\* output_format_context.write_trailer()?
WriteTrailer ==
    /\ pc = "write_trailer"
    /\ \E ok \in BOOLEAN :
        /\ log' = Append(log, Ev("write_trailer", 0, Answer(ok)))
        /\ IF ok
           THEN /\ mux' = [mux EXCEPT !.trailer = @ + 1]
                /\ out' = Append(out, Written("trailer", 0))
                /\ pc' = "end_block"
                /\ UNCHANGED <<result, strong>>
           ELSE Fail("write_trailer") /\ UNCHANGED out
    /\ UNCHANGED <<nfVars, harnessVars, ioVars, botVars, dst_frame, first_frame, src_frame, enc,
                   frame_after, epkt, ewTo, ewRet>>

\* Dropping the muxer drops the io context and the two callbacks it owns,
\* each with its clone of the Arc.
DropMuxer(n) == n - 2

\* A faulty EndBlock: no inner block, so the muxer and its callbacks are
\* still alive when the buffer is extracted.
EndBlockKeepsMuxer ==
    /\ pc = "end_block"
    /\ pc' = "extract"
    /\ UNCHANGED <<nfVars, harnessVars, ioVars, botVars, dst_frame, first_frame, src_frame, enc, mux,
                   strong, out, frame_after, epkt, ewTo, ewRet, result, log>>

\* The block ends with `buffer`: its locals are dropped, the muxer among
\* them; the orchestrator's Arc is moved out.
EndBlock ==
    /\ pc = "end_block"
    /\ mux' = [mux EXCEPT !.alive = FALSE]
    /\ strong' = DropMuxer(strong)
    /\ pc' = "extract"
    /\ UNCHANGED <<nfVars, harnessVars, ioVars, botVars, dst_frame, first_frame, src_frame, enc, out,
                   frame_after, epkt, ewTo, ewRet, result, log>>

\* A faulty ArcIntoInner: the contents are handed out whatever the count
\* (the buffer read through the lock instead of being unwrapped).
ArcIntoInnerAlways(n, value) == [kind |-> "Some", value |-> value]

\* Arc::into_inner(buffer): the value when this is the only strong
\* reference, None otherwise (the reference is dropped either way).
ArcIntoInner(n, value) ==
    IF n = 1 THEN [kind |-> "Some", value |-> value] ELSE [kind |-> "None", value |-> <<>>]

\* Arc::into_inner(buffer).context("Failed to get buffer")?.into_inner()?
\* .into_inner(), and Ok(ret).
Extract ==
    /\ pc = "extract"
    /\ LET inner == ArcIntoInner(strong, out) IN
        /\ log' = Append(log, Ev("into_inner", strong, inner.kind))
        /\ result' = IF inner.kind = "Some"
                     THEN [kind |-> "Ok", why |-> "", bytes |-> inner.value]
                     ELSE [kind |-> "Err", why |-> "Failed to get buffer", bytes |-> <<>>]
        /\ strong' = strong - 1
    /\ pc' = "done"
    /\ UNCHANGED <<nfVars, harnessVars, ioVars, botVars, dst_frame, first_frame, src_frame, enc, mux,
                   out, frame_after, epkt, ewTo, ewRet>>

EncodeMp4 ==
    \/ FirstCall \/ FirstRet \/ OutputContext \/ FindEncoder \/ Configure
    \/ OpenEncoder \/ AllocDst \/ NewStream \/ WriteHeader \/ GetSwsContext
    \/ EncodeFirst \/ Encoded \/ LoopCall \/ LoopRet \/ Flush \/ Flushed
    \/ WriteTrailer \/ EndBlock \/ Extract

\* No callback of the input has been called.  In a conversion they are the
\* backend's to call, and what it makes of the bytes is the input `pkts`.
NoCall == [op |-> "none", arg |-> 0, whence |-> 0, from |-> 0, ret |-> 0, bytes |-> <<>>]

\* The reads made from the position `from` on: the bytes they delivered, in
\* order, whether one of them answered end of file, and whether bytes were
\* delivered after that answer.
NoRun == [from |-> 0, bytes |-> <<>>, eof |-> FALSE, late |-> FALSE]

IoIdle ==
    /\ data = <<>>
    /\ cur = 0
    /\ called = NoCall
    /\ run = NoRun

\* upgrade_image_url has not been called.
NotUpgraded == [kind |-> "none", url |-> <<>>, referer |-> ""]

UrlIdle ==
    /\ url = <<>>
    /\ require_large_image = FALSE
    /\ require_sinaimg = FALSE
    /\ upgraded = NotUpgraded

\* parse_comment has not been called.
NotParsed == [kind |-> "none", entities |-> <<>>]

ParseIdle ==
    /\ comment = <<>>
    /\ parsed = NotParsed

\* http::request has not been called.
NoRequest == [fn |-> "none", url |-> "", referer |-> ""]
NotReturned == [kind |-> "none", value |-> "none"]

HttpIdle ==
    /\ req = NoRequest
    /\ attempt = 0
    /\ tries = <<>>
    /\ httpRet = NotReturned

\* main has not started.
MainIdle ==
    /\ history_text = <<>>
    /\ history = <<>>
    /\ new_pics = <<>>
    /\ pics = <<>>
    /\ pic = 0
    /\ okFor = {}
    /\ started = <<>>
    /\ sentNow = <<>>
    /\ mainRet = "none"

\* format_caption has not been called.
NoPic == [author |-> 0, id |-> 0, text |-> 0, oo |-> 0, xx |-> 0, hot |-> <<>>]

CapIdle ==
    /\ picArg = NoPic
    /\ hot = 0
    /\ msgs = <<>>

\* download_image has not been called.
DlIdle ==
    /\ candidate = 0
    /\ errors = <<>>
    /\ fetched = <<>>
    /\ dlRet = [kind |-> "none", errors |-> <<>>]

\* send_pic has not been called.
SendIdle ==
    /\ images = <<>>
    /\ captions = <<>>
    /\ route = "none"
    /\ sendAt = 0
    /\ tg = <<>>
    /\ sendRet = "none"

\* upload_comment_images has not been called.
UpIdle ==
    /\ entries = <<>>
    /\ entry = 0
    /\ db = {}
    /\ db_file = {}
    /\ uploads = <<>>
    /\ pass = 0
    /\ upRet = "none"

TgIdle == CapIdle /\ DlIdle /\ SendIdle /\ UpIdle

\* Nothing of the bot outside the conversion is running.
BotIdle == UrlIdle /\ ParseIdle /\ HttpIdle /\ MainIdle /\ TgIdle

EncIdle ==
    /\ dst_frame = NoDst
    /\ first_frame = 0
    /\ src_frame = 0
    /\ enc = EncoderNone
    /\ mux = MuxNone
    /\ strong = 0
    /\ out = <<>>
    /\ frame_after = NoFrame
    /\ epkt = NoPacket
    /\ ewTo = ""
    /\ ewRet = Ok
    /\ result = NoResult

\* A call video_to_mp4(data): the input is what the backend will make of
\* `data`.  The two streams being alike, find_best_stream answers stream 0
\* or none here; the iterator on its own is started on either stream.
Init ==
    /\ best \in {0, -1}
    /\ pkts \in InputsFor(best)
    /\ stream_index = -1
    /\ rd = 0
    /\ demuxEof = FALSE
    /\ frame_buffer = 0
    /\ dec = DecoderNew
    /\ packet = None
    /\ pc = "open_input"
    /\ nfTo = ""
    /\ nfRet = NoRet
    /\ calls = 0
    /\ rets = <<>>
    /\ log = <<>>
    /\ EncIdle
    /\ IoIdle
    /\ BotIdle

Next == OpenInput \/ DecodeVideo \/ NextFrame \/ EncodeMp4 \/ EncodeWriteFrame

Spec == Init /\ [][Next]_vars

\* video_to_mp4 runs on one thread and nothing it calls blocks: a step that
\* can be taken is taken.
SpecFair == Spec /\ WF_vars(Next)

(***************************************************************************)
(* The iterator on its own: an AVFrameIter as decode_video returns it,     *)
(* and a caller that calls next_frame again and again, whatever it         *)
(* returned before.                                                        *)
(***************************************************************************)
InitIter ==
    /\ pkts \in {s \in Inputs : \A k \in DOMAIN s : s[k].fmt \in {EncoderFormat, "none"}}
    /\ best \in StreamIds
    /\ stream_index = best
    /\ rd = 0
    /\ demuxEof = FALSE
    /\ frame_buffer = 0
    /\ dec = DecoderNew
    /\ packet = None
    /\ pc = "iter_call"
    /\ nfTo = "iter_ret"
    /\ nfRet = NoRet
    /\ calls = 0
    /\ rets = <<>>
    /\ log = <<>>
    /\ EncIdle
    /\ IoIdle
    /\ BotIdle

IterCall ==
    /\ pc = "iter_call"
    /\ calls < MaxCalls
    /\ calls' = calls + 1
    /\ pc' = "nf_read"
    /\ UNCHANGED <<iterVars, rets, encVars, ioVars, botVars>>

IterRet ==
    /\ pc = "iter_ret"
    /\ rets' = Append(rets, [ret |-> nfRet, eof |-> demuxEof])
    /\ pc' = "iter_call"
    /\ UNCHANGED <<iterVars, calls, encVars, ioVars, botVars>>

NextIter == IterCall \/ IterRet \/ NextFrame

SpecIter == InitIter /\ [][NextIter]_vars

(***************************************************************************)
(* The extraction on its own: the last statement of encode_mp4, started    *)
(* with the orchestrator's Arc and any number of the callbacks' clones     *)
(* still alive (a muxer that was not torn down keeps its two).             *)
(***************************************************************************)
\* Longest output buffer the extraction is tried on.
MaxOut == 3

Units == {Written("header", 0), Written("packet", 1), Written("trailer", 0)}

InitExtract ==
    /\ pkts = <<>>
    /\ best = 0
    /\ stream_index = 0
    /\ rd = 0
    /\ demuxEof = TRUE
    /\ frame_buffer = 0
    /\ dec = DecoderNew
    /\ packet = None
    /\ pc = "extract"
    /\ dst_frame = NoDst
    /\ nfTo = ""
    /\ nfRet = RetNone
    /\ calls = 0
    /\ rets = <<>>
    /\ log = <<>>
    /\ first_frame = 0
    /\ src_frame = 0
    /\ enc = EncoderNone
    /\ strong \in 1..3
    /\ mux = [MuxNone EXCEPT !.alive = (strong > 1)]
    /\ out \in SeqsUpTo(Units, MaxOut)
    /\ frame_after = NoFrame
    /\ epkt = NoPacket
    /\ ewTo = ""
    /\ ewRet = Ok
    /\ result = NoResult
    /\ IoIdle
    /\ BotIdle

NextExtract == Extract

SpecExtract == InitExtract /\ [][NextExtract]_vars

(***************************************************************************)
(* The input on its own: the read and the seek callback that               *)
(* input_format_context gives the backend, called in any order and with    *)
(* any arguments, on the cursor they share.                                *)
(***************************************************************************)
\* Longest input, largest buf of a read, largest offset of a seek (of either
\* sign), and the largest cursor the seeks are let reach.
MaxLen == 2
MaxBuf == 2
MaxOff == 3
MaxCur == 5

Bytes == {0, 255}

AVSEEK_SIZE == 65536
AVERROR_EOF == -541478725

\* The values of `whence`: SEEK_SET, SEEK_CUR, SEEK_END, AVSEEK_SIZE, and 3
\* for every other value.
Whences == {0, 1, 2, AVSEEK_SIZE, 3}

Min(a, b) == IF a <= b THEN a ELSE b

\* A faulty variant of ReadBytes: the copy starts at the head of the input,
\* whatever the cursor.
ReadBytesFromStart(d, c, n) == SubSeq(d, 1, Min(Len(d) - c, n))

\* (&data[c..]).read(buf) with a buf of n bytes: what is copied.
ReadBytes(d, c, n) == SubSeq(d, c + 1, c + Min(Len(d) - c, n))

\* The read callback with a buf of n bytes.
IoRead ==
    /\ pc = "io"
    /\ \E n \in 1..MaxBuf :
        IF Len(data) <= cur
        THEN /\ called' = [op |-> "read", arg |-> n, whence |-> 0, from |-> cur,
                           ret |-> AVERROR_EOF, bytes |-> <<>>]
             /\ run' = [run EXCEPT !.eof = TRUE]
             /\ UNCHANGED cur
        ELSE LET got == ReadBytes(data, cur, n) IN
             /\ cur' = cur + Len(got)
             /\ called' = [op |-> "read", arg |-> n, whence |-> 0, from |-> cur,
                           ret |-> Len(got), bytes |-> got]
             /\ run' = [run EXCEPT !.bytes = @ \o got, !.late = @ \/ run.eof]
    /\ UNCHANGED <<iterVars, pc, harnessVars, encVars, botVars, data>>

\* A faulty match on whence: an unknown whence is taken as a seek to the
\* start of the input.
SeekAnswerUnknownIsStart(whence, offset, c, len) ==
    CASE whence = 0 -> offset
      [] whence = 1 -> c + offset
      [] whence = 2 -> len + offset
      [] whence = AVSEEK_SIZE -> len
      [] OTHER -> 0

\* The match on whence: the callback's answer, for a cursor at c and an
\* input of len bytes.
SeekAnswer(whence, offset, c, len) ==
    CASE whence = 0 -> offset
      [] whence = 1 -> c + offset
      [] whence = 2 -> len + offset
      [] whence = AVSEEK_SIZE -> len
      [] OTHER -> -1

\* A faulty SeekStores: the size query moves the cursor like any seek.
SeekStoresOnQuery(whence, new) == new >= 0

\* Whether the answer becomes the cursor: the arm of AVSEEK_SIZE returns
\* before the store, and a negative answer is not stored.
SeekStores(whence, new) == whence # AVSEEK_SIZE /\ new >= 0

\* The seek callback.
IoSeek ==
    /\ pc = "io"
    /\ \E offset \in -MaxOff..MaxOff, whence \in Whences :
        LET new == SeekAnswer(whence, offset, cur, Len(data)) IN
        /\ new <= MaxCur
        /\ cur' = IF SeekStores(whence, new) THEN new ELSE cur
        /\ called' = [op |-> "seek", arg |-> offset, whence |-> whence, from |-> cur,
                      ret |-> new, bytes |-> <<>>]
        /\ run' = IF SeekStores(whence, new) THEN [NoRun EXCEPT !.from = new] ELSE run
    /\ UNCHANGED <<iterVars, pc, harnessVars, encVars, botVars, data>>

InitIo ==
    /\ pkts = <<>>
    /\ best = 0
    /\ stream_index = 0
    /\ rd = 0
    /\ demuxEof = FALSE
    /\ frame_buffer = 0
    /\ dec = DecoderNew
    /\ packet = None
    /\ pc = "io"
    /\ nfTo = ""
    /\ nfRet = NoRet
    /\ calls = 0
    /\ rets = <<>>
    /\ log = <<>>
    /\ EncIdle
    /\ data \in SeqsUpTo(Bytes, MaxLen)
    /\ cur = 0
    /\ called = NoCall
    /\ run = NoRun
    /\ BotIdle

NextIo == IoRead \/ IoSeek

SpecIo == InitIo /\ [][NextIo]_vars

(***************************************************************************)
(* The bot outside the conversion (main.rs, spider.rs, http.rs).  Each of  *)
(* its functions is run on its own, with the conversion idle.              *)
(***************************************************************************)
ConvertIdle ==
    /\ pkts = <<>>
    /\ best = 0
    /\ stream_index = 0
    /\ rd = 0
    /\ demuxEof = FALSE
    /\ frame_buffer = 0
    /\ dec = DecoderNew
    /\ packet = None
    /\ nfTo = ""
    /\ nfRet = NoRet
    /\ calls = 0
    /\ rets = <<>>
    /\ log = <<>>
    /\ EncIdle
    /\ IoIdle

convertVars == <<iterVars, harnessVars, encVars, ioVars>>

(***************************************************************************)
(* upgrade_image_url.  A URL is a sequence of parts: "/", the names of the *)
(* sizes and of the hosts the function looks for, and "x" for any other    *)
(* text.  contains and replace work on the sequence as str::contains and   *)
(* str::replace work on the characters.                                    *)
(***************************************************************************)
\* Longest URL, in parts.
MaxUrl == 4

UrlParts == {"/", "mw600", "orj360", "large", "img.toto.im", "moyu.im", "sinaimg.cn", "x"}

LARGE == <<"/", "large", "/">>
MW600 == <<"/", "mw600", "/">>
ORJ360 == <<"/", "orj360", "/">>
SINAIMG == <<"sinaimg.cn">>
TOTO == <<"img.toto.im">>
TVA1 == <<"tva1.", "sinaimg.cn">>
MOYU == <<"moyu.im">>

\* str::contains
Contains(s, pat) ==
    \E i \in 1..(Len(s) - Len(pat) + 1) : SubSeq(s, i, i + Len(pat) - 1) = pat

\* str::replace: every match that does not overlap an earlier one, from the
\* left.
RECURSIVE Replace(_, _, _)
Replace(s, from, to) ==
    IF Len(s) < Len(from) THEN s
    ELSE IF SubSeq(s, 1, Len(from)) = from
         THEN to \o Replace(SubSeq(s, Len(from) + 1, Len(s)), from, to)
         ELSE <<Head(s)>> \o Replace(Tail(s), from, to)

\* The test "don't downgrade".
Downgrade(is_large_image, is_sinaimg, large, sinaimg) ==
    \/ is_large_image /\ ~large
    \/ is_sinaimg /\ ~sinaimg

UpgradeImageUrl(u, large, sinaimg) ==
    LET is_large_image == Contains(u, LARGE)
        is_sinaimg == Contains(u, SINAIMG)
    IN  IF Downgrade(is_large_image, is_sinaimg, large, sinaimg)
        THEN [kind |-> "None", url |-> <<>>, referer |-> ""]
        ELSE LET referer == IF sinaimg THEN "https://weibo.com/" ELSE "https://jandan.net/"
                 u1 == IF large /\ ~is_large_image
                       THEN Replace(Replace(u, MW600, LARGE), ORJ360, LARGE)
                       ELSE u
                 u2 == IF sinaimg /\ ~is_sinaimg
                       THEN Replace(Replace(u1, TOTO, TVA1), MOYU, SINAIMG)
                       ELSE u1
             IN  [kind |-> "Some", url |-> u2, referer |-> referer]

InitUrl ==
    /\ ConvertIdle
    /\ TgIdle
    /\ pc = "upgrade"
    /\ url \in SeqsUpTo(UrlParts, MaxUrl)
    /\ require_large_image \in BOOLEAN
    /\ require_sinaimg \in BOOLEAN
    /\ upgraded = NotUpgraded
    /\ ParseIdle
    /\ HttpIdle
    /\ MainIdle

\* A call of upgrade_image_url.
Upgrade ==
    /\ pc = "upgrade"
    /\ upgraded' = UpgradeImageUrl(url, require_large_image, require_sinaimg)
    /\ pc' = "upgraded"
    /\ UNCHANGED <<convertVars, tgVars, url, require_large_image, require_sinaimg, parseVars,
                   httpVars, mainVars>>

NextUrl == Upgrade

SpecUrl == InitUrl /\ [][NextUrl]_vars

(***************************************************************************)
(* parse_comment.  A comment is a sequence of characters, made of the      *)
(* pieces the three rules look for; a range is a pair of byte offsets,     *)
(* start included and end excluded, as Range<usize> is.                    *)
(***************************************************************************)
\* Longest comment, in pieces.
MaxPieces == 3

IMG_OPEN == <<"<", "i", "m", "g", " ", "s", "r", "c", "=", "\"">>
IMG_CLOSE == <<"\"", " ", "/", ">">>
A_OPEN == <<"<", "a">>
A_CLOSE == <<"<", "/", "a", ">">>
BR == <<"<", "b", "r", ">">>

Pieces == {IMG_OPEN, IMG_CLOSE, A_OPEN, <<">">>, A_CLOSE, BR, <<"x">>}

RECURSIVE Flatten(_)
Flatten(ps) == IF ps = <<>> THEN <<>> ELSE Head(ps) \o Flatten(Tail(ps))

Comments == {Flatten(ps) : ps \in SeqsUpTo(Pieces, MaxPieces)}

\* Whether the literal `pat` is at position i of s (counted from 1).
StartsAt(s, i, pat) ==
    /\ i + Len(pat) - 1 <= Len(s)
    /\ SubSeq(s, i, i + Len(pat) - 1) = pat

\* The first position from i on that holds the character c, 0 if none does.
FirstAt(s, i, c) ==
    LET J == {j \in i..Len(s) : s[j] = c}
    IN  IF J = {} THEN 0 ELSE CHOOSE j \in J : \A k \in J : j <= k

NoMatch == [type |-> "none", start |-> 0, end |-> 0, cstart |-> 0, cend |-> 0]

\* <img src="(?P<img>[^"]+)" /> at position i: [^"]+ runs up to the first
\* quote, which must open the closing literal.
ImgAt(s, i) ==
    IF ~StartsAt(s, i, IMG_OPEN) THEN NoMatch
    ELSE LET from == i + Len(IMG_OPEN)
             q == FirstAt(s, from, "\"")
         IN  IF q = 0 \/ q = from \/ ~StartsAt(s, q, IMG_CLOSE) THEN NoMatch
             ELSE [type |-> "Img", start |-> i - 1, end |-> q + Len(IMG_CLOSE) - 1,
                   cstart |-> from - 1, cend |-> q - 1]

\* <a[^>]*>(?P<at>[^<]*)</a> at position i: [^>]* runs up to the first ">",
\* [^<]* from there up to the first "<", which must open "</a>".
MentionAt(s, i) ==
    IF ~StartsAt(s, i, A_OPEN) THEN NoMatch
    ELSE LET g == FirstAt(s, i + Len(A_OPEN), ">")
             l == IF g = 0 THEN 0 ELSE FirstAt(s, g + 1, "<")
         IN  IF g = 0 \/ l = 0 \/ ~StartsAt(s, l, A_CLOSE) THEN NoMatch
             ELSE [type |-> "Mention", start |-> i - 1, end |-> l + Len(A_CLOSE) - 1,
                   cstart |-> g, cend |-> l - 1]

\* <br> at position i.
BrAt(s, i) ==
    IF ~StartsAt(s, i, BR) THEN NoMatch
    ELSE [type |-> "Br", start |-> i - 1, end |-> i + Len(BR) - 1,
          cstart |-> i - 1, cend |-> i + Len(BR) - 1]

MatchAt(rule, s, i) ==
    CASE rule = "Img" -> ImgAt(s, i)
      [] rule = "Mention" -> MentionAt(s, i)
      [] OTHER -> BrAt(s, i)

\* Regex::captures_iter: the matches of one rule from position i on, from the
\* left, each search starting where the match before ended.
RECURSIVE CapturesIter(_, _, _)
CapturesIter(rule, s, i) ==
    IF i > Len(s) THEN <<>>
    ELSE LET m == MatchAt(rule, s, i)
         IN  IF m = NoMatch THEN CapturesIter(rule, s, i + 1)
             ELSE <<m>> \o CapturesIter(rule, s, m.end + 1)

\* Vec::sort_by_key(|e| e.range().start): a stable sort.
RECURSIVE InsertByStart(_, _)
InsertByStart(sorted, e) ==
    IF sorted = <<>> THEN <<e>>
    ELSE IF e.start < Head(sorted).start THEN <<e>> \o sorted
         ELSE <<Head(sorted)>> \o InsertByStart(Tail(sorted), e)

RECURSIVE SortByStart(_)
SortByStart(es) ==
    IF es = <<>> THEN <<>>
    ELSE InsertByStart(SortByStart(SubSeq(es, 1, Len(es) - 1)), es[Len(es)])

Text(start, end) ==
    [type |-> "Text", start |-> start, end |-> end, cstart |-> start, cend |-> end]

\* The gap the loop looks at in its turn i (-1 .. n - 1), between the sorted
\* matches es of a comment of len bytes.
GapStart(es, i) == IF i = -1 THEN 0 ELSE es[i + 1].end
GapEnd(es, i, len) == IF i + 1 < Len(es) THEN es[i + 2].start ELSE len

\* assert!(start <= end, "overlap")
OverlapAssert(start, end) == start <= end

\* The loop from turn i on: the entities with a Text pushed for every gap
\* that is not empty, or a panic.
RECURSIVE PushTexts(_, _, _, _)
PushTexts(es, i, len, acc) ==
    IF i >= Len(es) THEN [kind |-> "Ok", entities |-> acc]
    ELSE LET start == GapStart(es, i)
             end == GapEnd(es, i, len)
         IN  IF ~OverlapAssert(start, end) THEN [kind |-> "panic", entities |-> <<>>]
             ELSE IF start = end THEN PushTexts(es, i + 1, len, acc)
             ELSE PushTexts(es, i + 1, len, Append(acc, Text(start, end)))

ParseCommentOf(s) ==
    LET found == CapturesIter("Img", s, 1) \o CapturesIter("Mention", s, 1)
                    \o CapturesIter("Br", s, 1)
        entities == SortByStart(found)
        pushed == PushTexts(entities, -1, Len(s), entities)
    IN  IF pushed.kind = "panic" THEN pushed
        ELSE [kind |-> "Ok", entities |-> SortByStart(pushed.entities)]

InitParse ==
    /\ ConvertIdle
    /\ TgIdle
    /\ UrlIdle
    /\ pc = "parse"
    /\ comment \in Comments
    /\ parsed = NotParsed
    /\ HttpIdle
    /\ MainIdle

\* A call of parse_comment.
ParseComment ==
    /\ pc = "parse"
    /\ parsed' = ParseCommentOf(comment)
    /\ pc' = "parsed"
    /\ UNCHANGED <<convertVars, tgVars, urlVars, comment, httpVars, mainVars>>

NextParse == ParseComment

SpecParse == InitParse /\ [][NextParse]_vars

(***************************************************************************)
(* http::request.  send() is the environment: it answers a response, of    *)
(* any status, or an error, which is a timeout or not.                     *)
(***************************************************************************)
\* for attempt in (0..3).rev()
ATTEMPTS == 3

Urls == {"https://img.toto.im/mw600/a.jpg", "http://jandan.net/tucao/1"}
Referers == {"https://weibo.com/", "https://jandan.net/"}

\* What get and get_with_referer hand to request.
Requests ==
    [fn : {"get"}, url : Urls, referer : {""}]
        \cup [fn : {"get_with_referer"}, url : Urls, referer : Referers]

Responses == {"200", "404"}
SendErrors == {"timeout", "connect"}
SendAnswers == [kind : {"Ok"}, value : Responses] \cup [kind : {"Err"}, value : SendErrors]

\* e.is_timeout()
IsTimeout(a) == a.kind = "Err" /\ a.value = "timeout"

\* A faulty guard of the second arm: a timeout is retried whatever the
\* attempts left.
RetriesAlways(a, left) == IsTimeout(a)

\* The guard of the second arm: Err(e) if e.is_timeout() && attempt > 0.
Retries(a, left) == IsTimeout(a) /\ left > 0

InitHttp ==
    /\ ConvertIdle
    /\ TgIdle
    /\ UrlIdle
    /\ ParseIdle
    /\ pc = "for"
    /\ req \in Requests
    /\ attempt = ATTEMPTS
    /\ tries = <<>>
    /\ httpRet = NotReturned
    /\ MainIdle

\* The loop head: the next attempt of (0..3).rev(), or the end of the loop
\* and unreachable!().
HttpFor ==
    /\ pc = "for"
    /\ IF attempt > 0
       THEN attempt' = attempt - 1 /\ pc' = "send"
       ELSE pc' = "unreachable" /\ UNCHANGED attempt
    /\ UNCHANGED <<convertVars, tgVars, urlVars, parseVars, mainVars, req, tries, httpRet>>

\* CLIENT.with(|client| build_request(client)).send().await
HttpSend ==
    /\ pc = "send"
    /\ \E a \in SendAnswers : tries' = Append(tries, a)
    /\ pc' = "match"
    /\ UNCHANGED <<convertVars, tgVars, urlVars, parseVars, mainVars, req, attempt, httpRet>>

\* The match on the answer.
HttpMatch ==
    /\ pc = "match"
    /\ LET a == tries[Len(tries)] IN
        CASE a.kind = "Ok" -> httpRet' = a /\ pc' = "returned"
          [] Retries(a, attempt) -> pc' = "delay" /\ UNCHANGED httpRet
          [] OTHER -> httpRet' = a /\ pc' = "returned"
    /\ UNCHANGED <<convertVars, tgVars, urlVars, parseVars, mainVars, req, attempt, tries>>

\* log::warn!(..); tokio::time::delay_for(Duration::from_secs(1)).await
HttpDelay ==
    /\ pc = "delay"
    /\ pc' = "for"
    /\ UNCHANGED <<convertVars, tgVars, urlVars, parseVars, mainVars, httpVars>>

NextHttp == HttpFor \/ HttpSend \/ HttpMatch \/ HttpDelay

SpecHttp == InitHttp /\ [][NextHttp]_vars

(***************************************************************************)
(* main.  An id is a number; HISTORY_FILE is the sequence of the pieces    *)
(* its newlines split it into, 0 for an empty piece and <<>> for the empty *)
(* file.  The spider, the uploads, send_pic and the file system are the    *)
(* environment: each call succeeds or fails.                               *)
(***************************************************************************)
HISTORY_SOFT_LIMIT == 100

\* Most pics on the page, and how far over the limit the file main finds
\* may be.
MaxPics == 2
MaxOver == 1

\* The file main finds holds the ids 1 .. h, after an empty line or not.
IdsTo(h) == [k \in 1..h |-> k]
HistLens == {0, 1} \cup ((HISTORY_SOFT_LIMIT - 1)..(HISTORY_SOFT_LIMIT + MaxOver))
HistoryTexts ==
    {IdsTo(h) : h \in HistLens} \cup {<<0>> \o IdsTo(h) : h \in HistLens \ {0}}

\* The ids on the page: the oldest of the file and two it does not hold.
PicIds == {1, HISTORY_SOFT_LIMIT + MaxOver + 1, HISTORY_SOFT_LIMIT + MaxOver + 2}

\* buf.lines().filter(|l| !l.is_empty()).collect()
NotEmpty(l) == l # 0
Lines(text) == SelectSeq(text, NotEmpty)

\* history.contains(&&*pic.id)
Contained(h, id) == \E k \in DOMAIN h : h[k] = id

\* write!(history_file, "\n{}", pic.id)
WithLine(text, id) == IF text = <<>> THEN <<0, id>> ELSE Append(text, id)

\* A faulty fresh_start: nothing is cut off.
FreshStartKeepsAll(n) == 0

\* history.len().checked_sub(HISTORY_SOFT_LIMIT).unwrap_or(0)
FreshStart(n) == IF n >= HISTORY_SOFT_LIMIT THEN n - HISTORY_SOFT_LIMIT ELSE 0

\* history[fresh_start..].join("\n"), as the file holds it.
Truncated(h) == SubSeq(h, FreshStart(Len(h)) + 1, Len(h))

InitMain ==
    /\ ConvertIdle
    /\ TgIdle
    /\ UrlIdle
    /\ ParseIdle
    /\ HttpIdle
    /\ pc = "main"
    /\ history_text \in HistoryTexts
    /\ started = history_text
    /\ history = <<>>
    /\ new_pics = <<>>
    /\ pics = <<>>
    /\ pic = 0
    /\ okFor = {}
    /\ sentNow = <<>>
    /\ mainRet = "none"

\* `?` on an Err: main returns it.
MainFails ==
    /\ pc' = "exit"
    /\ mainRet' = "Err"

\* Database::open, File::options()..open, read_to_string and the lines kept.
MainOpen ==
    /\ pc = "main"
    /\ \E ok \in BOOLEAN :
        IF ok
        THEN /\ history' = Lines(history_text)
             /\ pc' = "spider"
             /\ UNCHANGED mainRet
        ELSE MainFails /\ UNCHANGED history
    /\ UNCHANGED <<convertVars, tgVars, urlVars, parseVars, httpVars, history_text, new_pics, pics,
                   pic, okFor, started, sentNow>>

\* let pics = spider::do_the_evil().await?
DoTheEvil ==
    /\ pc = "spider"
    /\ \/ /\ \E ps \in SeqsUpTo(PicIds, MaxPics) : pics' = ps
          /\ pc' = "for"
          /\ UNCHANGED mainRet
       \/ MainFails /\ UNCHANGED pics
    /\ UNCHANGED <<convertVars, tgVars, urlVars, parseVars, httpVars, history_text, history,
                   new_pics, pic, okFor, started, sentNow>>

\* The head of the for loop: the next pic whose id `history` does not hold.
MainFor ==
    /\ pc = "for"
    /\ LET rest == {i \in (pic + 1)..Len(pics) : ~Contained(history, pics[i])} IN
        IF rest = {}
        THEN pc' = "truncate" /\ UNCHANGED <<pic, okFor>>
        ELSE /\ pic' = CHOOSE i \in rest : \A j \in rest : i <= j
             /\ okFor' = {}
             /\ pc' = "images"
    /\ UNCHANGED <<convertVars, tgVars, urlVars, parseVars, httpVars, history_text, history,
                   new_pics, pics, started, sentNow, mainRet>>

\* A call of the loop's body that is followed by `?`.
MainCall(at, next) ==
    /\ pc = at
    /\ \E ok \in BOOLEAN :
        IF ok
        THEN /\ okFor' = okFor \cup {at}
             /\ pc' = next
             /\ UNCHANGED mainRet
        ELSE MainFails /\ UNCHANGED okFor

\* upload_comment_images(&bot, &mut db, &pic.comments).await?
UploadCommentImages ==
    /\ MainCall("images", "mentions")
    /\ UNCHANGED <<convertVars, tgVars, urlVars, parseVars, httpVars, history_text, history,
                   new_pics, pics, pic, started, sentNow>>

\* upload_comment_mentions(&bot, &mut db, &pic.comments).await?
UploadCommentMentions ==
    /\ MainCall("mentions", "send_pic")
    /\ UNCHANGED <<convertVars, tgVars, urlVars, parseVars, httpVars, history_text, history,
                   new_pics, pics, pic, started, sentNow>>

\* send_pic(&bot, &db, &pic).await?
SendPic ==
    /\ MainCall("send_pic", "write")
    /\ sentNow' = IF pc' = "write" THEN Append(sentNow, pics[pic]) ELSE sentNow
    /\ UNCHANGED <<convertVars, tgVars, urlVars, parseVars, httpVars, history_text, history,
                   new_pics, pics, pic, started>>

\* write!(history_file, "\n{}", pic.id)?
WriteHistory ==
    /\ pc = "write"
    /\ \E ok \in BOOLEAN :
        IF ok
        THEN /\ history_text' = WithLine(history_text, pics[pic])
             /\ pc' = "push"
             /\ UNCHANGED mainRet
        ELSE MainFails /\ UNCHANGED history_text
    /\ UNCHANGED <<convertVars, tgVars, urlVars, parseVars, httpVars, history, new_pics, pics, pic,
                   okFor, started, sentNow>>

\* new_pics.push(pic.id)
PushNewPic ==
    /\ pc = "push"
    /\ new_pics' = Append(new_pics, pics[pic])
    /\ pc' = "for"
    /\ UNCHANGED <<convertVars, tgVars, urlVars, parseVars, httpVars, history_text, history, pics,
                   pic, okFor, started, sentNow, mainRet>>

\* history.extend(new_pics), fresh_start and std::fs::write(..)?, which
\* empties the file before it writes.
TruncateHistory ==
    /\ pc = "truncate"
    /\ history' = history \o new_pics
    /\ pc' = "exit"
    /\ \E ok \in BOOLEAN :
        IF ok
        THEN history_text' = Truncated(history') /\ mainRet' = "Ok"
        ELSE history_text' \in {history_text, <<>>} /\ mainRet' = "Err"
    /\ UNCHANGED <<convertVars, tgVars, urlVars, parseVars, httpVars, new_pics, pics, pic, okFor,
                   started, sentNow>>

NextMain ==
    \/ MainOpen \/ DoTheEvil \/ MainFor \/ UploadCommentImages \/ UploadCommentMentions
    \/ SendPic \/ WriteHistory \/ PushNewPic \/ TruncateHistory

SpecMain == InitMain /\ [][NextMain]_vars

(***************************************************************************)
(* format_caption.  Only the number of characters of a string decides what *)
(* the function does with it, so a string is the count of its characters:  *)
(* n of them plain, `stars` of them "*", `marks` of them one of "[", "_"   *)
(* and "`".  A message is the sequence of the pieces pushed to it, each    *)
(* with what it was formatted from (0 the post, k the k-th hot comment)    *)
(* and its number of characters.                                           *)
(***************************************************************************)
TG_CAPTION_LIMIT == 1024

\* Most hot comments of a post.
MaxHot == 2

Str(n, stars, marks) == [n |-> n, stars |-> stars, marks |-> marks]

\* s.chars().count()
Chars(s) == s.n + s.stars + s.marks

\* s.replace("*", "")
NoStars(s) == [s EXCEPT !.stars = 0]

\* telegram_md_escape: a backslash before every "[", "*", "_" and "`".
TelegramMdEscape(s) == [s EXCEPT !.n = s.n + s.stars + s.marks]

\* The decimal digits `{}` writes for a u32.
RECURSIVE Digits(_)
Digits(v) == IF v < 10 THEN 1 ELSE 1 + Digits(v \div 10)

\* "*{}*: https://jandan.net/t/{}\n", the escaped text and "\n" when the
\* text is not empty, and "*OO*: {} *XX*: {}".
HeaderChars(p) ==
    1 + Chars(NoStars(p.author)) + 24 + p.id + 1
    + (IF Chars(p.text) # 0 THEN Chars(TelegramMdEscape(p.text)) + 1 ELSE 0)
    + 6 + Digits(p.oo) + 7 + Digits(p.xx)

\* "\n*{}*: {}\n*OO*: {}, *XX*: {}", where `content` is the number of
\* characters comment_to_tg_md returned.
FormattedChars(c) ==
    2 + Chars(NoStars(c.author)) + 3 + c.content + 7 + Digits(c.oo) + 8 + Digits(c.xx)

Piece(of, n) == [of |-> of, n |-> n]

\* msg.chars().count()
RECURSIVE Count(_)
Count(msg) == IF msg = <<>> THEN 0 ELSE Head(msg).n + Count(Tail(msg))

\* The test of the loop: `formatted` starts a message of its own.
StartsMessage(msg, formatted) == Count(msg) + formatted.n > TG_CAPTION_LIMIT

\* The body of the loop over pic.comments.hot.
PushFormatted(ms, formatted) ==
    IF StartsMessage(ms[Len(ms)], formatted)
    THEN Append(ms, <<formatted>>)
    ELSE [ms EXCEPT ![Len(ms)] = Append(@, formatted)]

\* The posts tried.  A comment of FitsChars characters fills the message of
\* the shortest post up to the limit exactly.
Authors == {Str(1, 0, 0), Str(1, 1, 1)}
Texts == {Str(0, 0, 0), Str(8, 1, 1), Str(TG_CAPTION_LIMIT, 0, 0)}
Votes == {0, 12}
FitsChars == TG_CAPTION_LIMIT - 72
Contents == {0, FitsChars, FitsChars + 1, TG_CAPTION_LIMIT}
HotComments == [author : Authors, content : Contents, oo : {0}, xx : Votes]
Pics == [author : Authors, id : {7}, text : Texts, oo : Votes, xx : {0},
         hot : SeqsUpTo(HotComments, MaxHot)]

InitCaption ==
    /\ ConvertIdle
    /\ UrlIdle /\ ParseIdle /\ HttpIdle /\ MainIdle
    /\ DlIdle /\ SendIdle /\ UpIdle
    /\ pc = "format_caption"
    /\ picArg \in Pics
    /\ hot = 0
    /\ msgs = <<>>

\* let mut msgs = vec![msg]
CaptionHead ==
    /\ pc = "format_caption"
    /\ msgs' = <<<<Piece(0, HeaderChars(picArg))>>>>
    /\ pc' = "hot"
    /\ UNCHANGED <<convertVars, urlVars, parseVars, httpVars, mainVars, picArg, hot,
                   dlVars, sendVars, upVars>>

\* One turn of the loop over pic.comments.hot.
CaptionHot ==
    /\ pc = "hot"
    /\ hot < Len(picArg.hot)
    /\ hot' = hot + 1
    /\ msgs' = PushFormatted(msgs, Piece(hot', FormattedChars(picArg.hot[hot'])))
    /\ UNCHANGED <<convertVars, urlVars, parseVars, httpVars, mainVars, picArg, pc,
                   dlVars, sendVars, upVars>>

\* The end of the loop: msgs is returned.
CaptionReturn ==
    /\ pc = "hot"
    /\ hot = Len(picArg.hot)
    /\ pc' = "captioned"
    /\ UNCHANGED <<convertVars, urlVars, parseVars, httpVars, mainVars, capVars,
                   dlVars, sendVars, upVars>>

NextCaption == CaptionHead \/ CaptionHot \/ CaptionReturn

SpecCaption == InitCaption /\ [][NextCaption]_vars

\* format_caption as send_pic calls it: the messages it returns.
RECURSIVE FormatCaptionFrom(_, _, _)
FormatCaptionFrom(p, ms, k) ==
    IF k = Len(p.hot) THEN ms
    ELSE FormatCaptionFrom(p, PushFormatted(ms, Piece(k + 1, FormattedChars(p.hot[k + 1]))), k + 1)

FormatCaption(p) == FormatCaptionFrom(p, <<<<Piece(0, HeaderChars(p))>>>>, 0)

(***************************************************************************)
(* send_pic and the send functions.  The downloads are the environment:    *)
(* `images` is what download_image returned for each URL of the post, an   *)
(* image or an error.  The Telegram API is the environment too: each call  *)
(* is accepted or fails, and send_media_group answers with a list of       *)
(* messages.                                                               *)
(***************************************************************************)
TG_IMAGE_DIMENSION_LIMIT == 1280
TG_IMAGE_SIZE_LIMIT == 10 * 1000 * 1000
LOW_QUALITY_IMG_SIZE == 200 * 1024

\* Most images of a post.
MaxImgs == 2

\* Result<Image, (anyhow::Error, &str)>: the images tried are at and over
\* each limit of image_too_large.
DownloadedImages ==
    [ok : {TRUE}, format : {"Gif", "Jpeg"},
     width : {TG_IMAGE_DIMENSION_LIMIT, TG_IMAGE_DIMENSION_LIMIT + 1}, height : {600},
     size : {LOW_QUALITY_IMG_SIZE, LOW_QUALITY_IMG_SIZE + 1, TG_IMAGE_SIZE_LIMIT + 1}]
DownloadFailed == [ok |-> FALSE, format |-> "none", width |-> 0, height |-> 0, size |-> 0]
DownloadResults == DownloadedImages \cup {DownloadFailed}

\* The posts send_pic is tried with: one to MaxHot + 1 captions.
SendPics ==
    {p \in Pics :
        /\ p.author = Str(1, 0, 0) /\ p.text = Str(0, 0, 0) /\ p.oo = 0
        /\ \A k \in DOMAIN p.hot :
              /\ p.hot[k].author = Str(1, 0, 0) /\ p.hot[k].xx = 0
              /\ p.hot[k].content \in {0, TG_CAPTION_LIMIT}}

\* Image::is_gif
IsGif(img) == img.format = "Gif"

Max(a, b) == IF a > b THEN a ELSE b

ImageTooLarge(img) ==
    \/ Max(img.width, img.height) > TG_IMAGE_DIMENSION_LIMIT /\ img.size > LOW_QUALITY_IMG_SIZE
    \/ img.size > TG_IMAGE_SIZE_LIMIT

ContainsError(imgs) == \E k \in DOMAIN imgs : ~imgs[k].ok
ContainsLargeImage(imgs) == \E k \in DOMAIN imgs : imgs[k].ok /\ ImageTooLarge(imgs[k])
ContainsGif(imgs) == \E k \in DOMAIN imgs : imgs[k].ok /\ IsGif(imgs[k])

\* A faulty test: a failed download is not looked for.
OldWayIgnoresErrors(imgs) ==
    imgs = <<>> \/ (ContainsLargeImage(imgs) /\ ContainsGif(imgs))

\* The test of send_pic's first `if`.
OldWay(imgs) ==
    imgs = <<>> \/ ContainsError(imgs) \/ (ContainsLargeImage(imgs) /\ ContainsGif(imgs))

\* A call of the Telegram API: the method, what is sent (the place of an
\* image in `images`, 0 for a text) and whether it was accepted.
TgCall(op, arg, ok) == [op |-> op, arg |-> arg, ok |-> ok]

InitSend ==
    /\ ConvertIdle
    /\ UrlIdle /\ ParseIdle /\ HttpIdle /\ MainIdle
    /\ DlIdle /\ UpIdle
    /\ pc = "send_pic"
    /\ picArg \in SendPics
    /\ hot = 0
    /\ msgs = <<>>
    /\ images \in SeqsUpTo(DownloadResults, MaxImgs)
    /\ captions = <<>>
    /\ route = "none"
    /\ sendAt = 0
    /\ tg = <<>>
    /\ sendRet = "none"

\* A send function is entered.
Enter(fn, at) ==
    /\ route' = fn
    /\ pc' = at
    /\ UNCHANGED sendRet

\* send_pic returns, or panics.
SendReturns(ret) ==
    /\ pc' = "sent"
    /\ sendRet' = ret

\* send_pic up to the call of a send function: format_caption, the three
\* flags, the tests and the assertions.
SendPicRoute ==
    /\ pc = "send_pic"
    /\ msgs' = FormatCaption(picArg)
    /\ captions' = msgs'
    /\ IF OldWay(images) THEN Enter("send_the_old_way", "old_images")
       ELSE IF images = <<>> THEN SendReturns("panic: images is empty") /\ UNCHANGED route
       ELSE IF ContainsLargeImage(images)
            THEN IF ContainsGif(images)
                 THEN SendReturns("panic: contains gif") /\ UNCHANGED route
                 ELSE IF Len(images) = 1
                      THEN IF ~images[1].ok
                           THEN SendReturns("panic: unwrap on None") /\ UNCHANGED route
                           ELSE Enter("send_document", "document")
                      ELSE Enter("send_the_old_way", "old_images")
            ELSE IF ContainsError(images)
                 THEN SendReturns("panic: error not filtered out, check the logic")
                      /\ UNCHANGED route
                 ELSE Enter("send_as_photo_group", "photo_group")
    /\ UNCHANGED <<convertVars, urlVars, parseVars, httpVars, mainVars, picArg, hot,
                   dlVars, images, sendAt, tg, upVars>>

\* captions.remove(0) and the call that sends the caption removed, followed
\* by `?`.
SendFirst(op, arg) ==
    IF captions = <<>>
    THEN SendReturns("panic: remove(0) of no caption") /\ UNCHANGED <<captions, tg>>
    ELSE /\ captions' = Tail(captions)
         /\ \E ok \in BOOLEAN :
              /\ tg' = Append(tg, TgCall(op, arg, ok))
              /\ IF ok THEN pc' = "replies" /\ UNCHANGED sendRet ELSE SendReturns("Err")

\* The branch of one too large image: it is sent as a document with the
\* first caption.
SendDocument ==
    /\ pc = "document"
    /\ SendFirst("send_document", 1)
    /\ UNCHANGED <<convertVars, urlVars, parseVars, httpVars, mainVars, capVars,
                   dlVars, images, route, sendAt, upVars>>

\* What upload_single_image calls for an image.
UploadMethod(img) ==
    IF IsGif(img) THEN "send_video"
    ELSE IF ImageTooLarge(img) THEN "send_document" ELSE "send_photo"

\* upload_single_image: what it may do with an image, the calls made and
\* whether it returned Ok.  video_to_mp4 of a gif may fail before any call.
UploadSingleImage(img, arg) ==
    {[calls |-> <<TgCall(UploadMethod(img), arg, ok)>>, ok |-> ok] : ok \in BOOLEAN}
    \cup (IF IsGif(img) THEN {[calls |-> <<>>, ok |-> FALSE]} ELSE {})

\* One turn of send_the_old_way's loop over the images: the image is
\* uploaded, or the URL of a failed download is sent as a text.
OldWayImage ==
    /\ pc = "old_images"
    /\ sendAt < Len(images)
    /\ sendAt' = sendAt + 1
    /\ LET img_result == images[sendAt']
           does == IF img_result.ok
                   THEN UploadSingleImage(img_result, sendAt')
                   ELSE {[calls |-> <<TgCall("send_message", sendAt', ok)>>, ok |-> ok] :
                            ok \in BOOLEAN}
       IN  \E d \in does :
              /\ tg' = tg \o d.calls
              /\ IF d.ok THEN UNCHANGED <<pc, sendRet>> ELSE SendReturns("Err")
    /\ UNCHANGED <<convertVars, urlVars, parseVars, httpVars, mainVars, capVars,
                   dlVars, images, captions, route, upVars>>

\* send_the_old_way after the loop: the first caption is sent as a text.
OldWayCaption ==
    /\ pc = "old_images"
    /\ sendAt = Len(images)
    /\ SendFirst("send_message", 0)
    /\ UNCHANGED <<convertVars, urlVars, parseVars, httpVars, mainVars, capVars,
                   dlVars, images, route, sendAt, upVars>>

\* send_as_photo_group up to the media group sent: every gif is converted,
\* the group is sent with the first caption, and the answer must hold a
\* message.
PhotoGroup ==
    /\ pc = "photo_group"
    /\ IF images = <<>>
       THEN SendReturns("panic: images is empty") /\ UNCHANGED <<captions, tg>>
       ELSE \/ /\ ContainsGif(images)
               /\ SendReturns("Err")
               /\ UNCHANGED <<captions, tg>>
            \/ IF captions = <<>>
               THEN SendReturns("panic: remove(0) of no caption") /\ UNCHANGED <<captions, tg>>
               ELSE /\ captions' = Tail(captions)
                    /\ \E ans \in {"Err", "no message", "messages"} :
                         /\ tg' = Append(tg, TgCall("send_media_group", 0, ans # "Err"))
                         /\ CASE ans = "Err" -> SendReturns("Err")
                              [] ans = "no message" -> SendReturns("panic: tg return 0 msg")
                              [] OTHER -> pc' = "replies" /\ UNCHANGED sendRet
    /\ UNCHANGED <<convertVars, urlVars, parseVars, httpVars, mainVars, capVars,
                   dlVars, images, route, sendAt, upVars>>

\* The loop all three end with: every caption left is sent as a reply to
\* the first message.
SendReply ==
    /\ pc = "replies"
    /\ IF captions = <<>>
       THEN SendReturns("Ok") /\ UNCHANGED <<captions, tg>>
       ELSE /\ captions' = Tail(captions)
            /\ \E ok \in BOOLEAN :
                 /\ tg' = Append(tg, TgCall("send_message", 0, ok))
                 /\ IF ok THEN UNCHANGED <<pc, sendRet>> ELSE SendReturns("Err")
    /\ UNCHANGED <<convertVars, urlVars, parseVars, httpVars, mainVars, capVars,
                   dlVars, images, route, sendAt, upVars>>

NextSend ==
    SendPicRoute \/ SendDocument \/ OldWayImage \/ OldWayCaption \/ PhotoGroup \/ SendReply

SpecSend == InitSend /\ [][NextSend]_vars

(***************************************************************************)
(* download_image.  download_image_with_referer is the environment: it     *)
(* returns an image or one of two errors.                                  *)
(***************************************************************************)
\* The URLs tried: a host, then a path.
Hosts == {"img.toto.im", "moyu.im", "sinaimg.cn", "x"}
DownloadUrls ==
    {u \in SeqsUpTo(UrlParts, MaxUrl) : Len(u) >= 2 /\ u[1] \in Hosts /\ u[2] = "/"}

DownloadErrors == {"timeout", "status 404"}

\* The loops nested the other way round.
CandidatesSinaimgFirst ==
    <<<<TRUE, TRUE>>, <<FALSE, TRUE>>, <<TRUE, FALSE>>, <<FALSE, FALSE>>>>

\* (large_image, sinaimg) in the order of the two nested loops.
Candidates ==
    <<<<TRUE, TRUE>>, <<TRUE, FALSE>>, <<FALSE, TRUE>>, <<FALSE, FALSE>>>>

NotDownloaded == [kind |-> "none", errors |-> <<>>]

InitDownload ==
    /\ ConvertIdle
    /\ ParseIdle /\ HttpIdle /\ MainIdle
    /\ CapIdle /\ SendIdle /\ UpIdle
    /\ pc = "download_image"
    /\ url \in DownloadUrls
    /\ require_large_image = FALSE
    /\ require_sinaimg = FALSE
    /\ upgraded = NotUpgraded
    /\ candidate = 0
    /\ errors = <<>>
    /\ fetched = <<>>
    /\ dlRet = NotDownloaded

\* The head of the inner loop: the next candidate, and upgrade_image_url for
\* it.
DownloadCandidate ==
    /\ pc = "download_image"
    /\ candidate < Len(Candidates)
    /\ candidate' = candidate + 1
    /\ require_large_image' = Candidates[candidate'][1]
    /\ require_sinaimg' = Candidates[candidate'][2]
    /\ upgraded' = UpgradeImageUrl(url, require_large_image', require_sinaimg')
    /\ pc' = IF upgraded'.kind = "Some" THEN "download_image_with_referer" ELSE pc
    /\ UNCHANGED <<convertVars, url, parseVars, httpVars, mainVars, capVars, errors,
                   fetched, dlRet, sendVars, upVars>>

\* download_image_with_referer(&url, referer) and the match on what it
\* returned.
DownloadWithReferer ==
    /\ pc = "download_image_with_referer"
    /\ \E ans \in {"Ok"} \cup DownloadErrors :
        /\ fetched' = Append(fetched, [url |-> upgraded.url, referer |-> upgraded.referer,
                                       ans |-> ans])
        /\ IF ans = "Ok"
           THEN /\ dlRet' = [kind |-> "Ok", errors |-> <<>>]
                /\ pc' = "downloaded"
                /\ UNCHANGED errors
           ELSE /\ errors' = Append(errors, <<upgraded.url, ans>>)
                /\ pc' = "download_image"
                /\ UNCHANGED dlRet
    /\ UNCHANGED <<convertVars, urlVars, parseVars, httpVars, mainVars, capVars, candidate,
                   sendVars, upVars>>

\* After the loops: bail!("Failed to download image from all candidates
\* {:?}", errors).
DownloadBail ==
    /\ pc = "download_image"
    /\ candidate = Len(Candidates)
    /\ dlRet' = [kind |-> "Err", errors |-> errors]
    /\ pc' = "downloaded"
    /\ UNCHANGED <<convertVars, urlVars, parseVars, httpVars, mainVars, capVars, candidate,
                   errors, fetched, sendVars, upVars>>

NextDownload == DownloadCandidate \/ DownloadWithReferer \/ DownloadBail

SpecDownload == InitDownload /\ [][NextDownload]_vars

(***************************************************************************)
(* upload_comment_images.  The comments are the hot comments followed by   *)
(* the mentioned comments that were found; a comment is the sequence of    *)
(* its entities.  Database.imgs is a set of entries, one for a URL at      *)
(* most.  download_image and the Telegram API are the environment.         *)
(***************************************************************************)
\* Most entities of a comment.
MaxEntities == 2

ImgUrls == {"a.jpg", "b.gif"}

TextEntities == [kind : {"Img"}, url : ImgUrls] \cup {[kind |-> "Text", url |-> ""]}

EntityLists == SeqsUpTo(TextEntities, MaxEntities)

\* A mentioned comment that is gone: None.
Gone == <<[kind |-> "None", url |-> ""]>>

\* A mentioned comment that was found: no entity or one.
Mentioned == {<<>>} \cup {<<e>> : e \in TextEntities}

\* spider::Comments as the function reads it: no hot comment or one, and up
\* to two mentions, the first of them gone.
CommentsTried ==
    [hot : {<<>>} \cup {<<x>> : x \in EntityLists},
     mentions : {<<>>} \cup {<<m>> : m \in Mentioned \cup {Gone}}
                \cup {<<Gone, m>> : m \in Mentioned}]

\* c.hot.iter().chain(c.mentions.values().filter_map(|c| c.as_ref())), and
\* the entities of each comment in turn.
IsFound(m) == m # Gone
Chained(c) == Flatten(c.hot \o SelectSeq(c.mentions, IsFound))

\* The entries the database may hold when the function is called.
OldEntries == {[url |-> "a.jpg", id |-> 100], [url |-> "b.gif", id |-> 101]}

\* A faulty get_img: it finds nothing.
GetImgFindsNothing(d, u) == {}

\* Database::get_img: the ids recorded for a URL, none or one.
GetImg(d, u) == {e.id : e \in {x \in d : x.url = u}}

\* HashMap::insert of put_img
Insert(d, u, id) == {x \in d : x.url # u} \cup {[url |-> u, id |-> id]}

\* What happened, in order: a call of the Telegram API for a URL and whether
\* it was accepted, a put_img, or the return of the function (its `url` is
\* what was returned).
Event(ev, u, id, ok) == [ev |-> ev, url |-> u, id |-> id, ok |-> ok, pass |-> pass]

IsAccepted(e) == e.ev \notin {"put_img", "return"} /\ e.ok

\* The id Telegram gives the next message.
NextMsgId == Len(SelectSeq(uploads, IsAccepted)) + 1

\* The images download_image may return here: a gif and a too large image.
UploadedImages ==
    {i \in DownloadedImages :
        i.width > TG_IMAGE_DIMENSION_LIMIT /\ i.size = LOW_QUALITY_IMG_SIZE + 1}

InitUpload ==
    /\ ConvertIdle
    /\ UrlIdle /\ ParseIdle /\ HttpIdle /\ MainIdle
    /\ CapIdle /\ DlIdle /\ SendIdle
    /\ pc = "upload_comment_images"
    /\ \E c \in CommentsTried : entries = Chained(c)
    /\ entry = 0
    /\ db \in SUBSET OldEntries
    /\ db_file = db
    /\ uploads = <<>>
    /\ pass = 1
    /\ upRet = "none"

\* The head of the inner loop: the next entity; an entity that is no image,
\* or an image the database has an entry for, is passed over.
UploadEntry ==
    /\ pc = "upload_comment_images"
    /\ entry < Len(entries)
    /\ entry' = entry + 1
    /\ pc' = IF entries[entry'].kind = "Img" /\ GetImg(db, entries[entry'].url) = {}
             THEN "download_image"
             ELSE pc
    /\ UNCHANGED <<convertVars, urlVars, parseVars, httpVars, mainVars, capVars, dlVars,
                   sendVars, entries, db, db_file, uploads, pass, upRet>>

\* upload_comment_images returns.
UploadReturns(ret, before) ==
    /\ upRet' = ret
    /\ pc' = "uploaded"
    /\ uploads' = Append(before, Event("return", ret, 0, ret = "Ok"))

\* The match on download_image(url): the image is uploaded, or the URL is
\* sent as a text; `?` returns when that fails; put_img then inserts the id
\* of the message and saves the database, ignoring whether the save failed.
UploadImage ==
    /\ pc = "download_image"
    /\ LET u == entries[entry].url
           Sent(call) == Event(call.op, u, IF call.ok THEN NextMsgId ELSE 0, call.ok)
           Does(img_result) ==
               IF img_result.ok
               THEN UploadSingleImage(img_result, u)
               ELSE {[calls |-> <<TgCall("send_message", u, ok)>>, ok |-> ok] :
                        ok \in BOOLEAN}
       IN  \E img_result \in UploadedImages \cup {DownloadFailed} :
           \E d \in Does(img_result) :
              LET sent == uploads \o [k \in DOMAIN d.calls |-> Sent(d.calls[k])] IN
              IF d.ok
              THEN /\ db' = Insert(db, u, NextMsgId)
                   /\ db_file' \in {db', db_file}
                   /\ uploads' = Append(sent, Event("put_img", u, NextMsgId, TRUE))
                   /\ pc' = "upload_comment_images"
                   /\ UNCHANGED upRet
              ELSE /\ UploadReturns("Err", sent)
                   /\ UNCHANGED <<db, db_file>>
    /\ UNCHANGED <<convertVars, urlVars, parseVars, httpVars, mainVars, capVars, dlVars,
                   sendVars, entries, entry, pass>>

\* After the loops: Ok(()).
UploadOk ==
    /\ pc = "upload_comment_images"
    /\ entry = Len(entries)
    /\ UploadReturns("Ok", uploads)
    /\ UNCHANGED <<convertVars, urlVars, parseVars, httpVars, mainVars, capVars, dlVars,
                   sendVars, entries, entry, db, db_file, pass>>

\* The function is called a second time, with the same comments and the
\* database as the first call left it.
UploadAgain ==
    /\ pc = "uploaded"
    /\ pass = 1
    /\ pass' = 2
    /\ entry' = 0
    /\ upRet' = "none"
    /\ pc' = "upload_comment_images"
    /\ UNCHANGED <<convertVars, urlVars, parseVars, httpVars, mainVars, capVars, dlVars,
                   sendVars, entries, db, db_file, uploads>>

NextUpload == UploadEntry \/ UploadImage \/ UploadOk \/ UploadAgain

SpecUpload == InitUpload /\ [][NextUpload]_vars

(***************************************************************************)
(* What is checked.  The log is read back: LogIdx(op) are the places of    *)
(* the calls of `op` in it.                                                *)
(***************************************************************************)
LogIdx(op) == {i \in DOMAIN log : log[i].op = op}

\* The packets of the input that belong to the selected stream.
Selected(p) == pkts[p] \in Packets /\ pkts[p].si = stream_index

\* The flush signals sent to the decoder: send_packet(None).
FlushIdx == {i \in LogIdx("send_packet") : log[i].arg = None}

\* The demuxer's reports of end of stream.
EofIdx == {i \in LogIdx("read_packet") : log[i].ans = "None"}

RECURSIVE SortedSeq(_)
SortedSeq(S) ==
    IF S = {} THEN <<>>
    ELSE LET m == CHOOSE x \in S : \A y \in S : x <= y
         IN  <<m>> \o SortedSeq(S \ {m})

\* C1: the container header is written at most once on every path; in every
\* conversion that sends a frame to the encoder it has been written exactly
\* once, after the encoder was opened and the output stream was created with
\* the opened encoder's codec parameters, and before the first frame is sent.
C1_HeaderOnceBeforeFrames ==
    LET headers == LogIdx("write_header")
        streams == LogIdx("new_stream")
        opens == LogIdx("open_encoder")
    IN
    /\ Cardinality(headers) <= 1
    /\ mux.header <= 1
    /\ \A i \in LogIdx("send_frame") :
        log[i].arg # None =>
            /\ mux.header = 1
            /\ mux.codecpar = "open"
            /\ \E h \in headers :
                /\ h < i
                /\ log[h].ans = "Ok"
                /\ \E st \in streams :
                    /\ st < h
                    /\ \E o \in opens : o < st /\ log[o].ans = "Ok"

\* C1's case: a frame has been sent to the encoder.
C1_Witness ==
    \E i \in LogIdx("send_frame") : log[i].arg # None /\ log[i].ans = "Ok"

\* C2: write_trailer is performed at most once, and only after the decoder
\* is drained, every frame it decoded has been sent to the encoder, and the
\* encoder's flush has been sent and drained; nothing is sent or written
\* after it; the buffer is extracted, and Ok(bytes) returned, only after
\* write_trailer returned successfully.
C2_TrailerLastThenExtract ==
    /\ Cardinality(LogIdx("write_trailer")) <= 1
    /\ mux.trailer <= 1
    /\ \A t \in LogIdx("write_trailer") :
        /\ dec.draining /\ dec.buf = <<>>
        /\ \A j \in LogIdx("send_packet") :
            (j < t /\ log[j].arg # None /\ log[j].ans = "Ok") =>
                \E k \in LogIdx("send_frame") :
                    k < t /\ log[k].arg = log[j].arg /\ log[k].ans = "Ok"
        /\ \A j \in LogIdx("receive_frame") :
            log[j].ans = "Ok" =>
                \E k \in LogIdx("send_frame") :
                    j < k /\ k < t /\ log[k].arg = log[j].arg /\ log[k].ans = "Ok"
        /\ \E f \in LogIdx("send_frame") :
            /\ f < t
            /\ log[f].arg = None /\ log[f].ans = "Ok"
            /\ \E e \in LogIdx("receive_packet") :
                f < e /\ e < t /\ log[e].ans = "EncoderFlushedError"
        /\ enc.flushed /\ enc.buf = <<>>
        /\ \A j \in DOMAIN log : j > t => log[j].op = "into_inner"
    /\ \A x \in LogIdx("into_inner") :
        \E t \in LogIdx("write_trailer") : t < x /\ log[t].ans = "Ok"
    /\ result.kind = "Ok" =>
        /\ mux.trailer = 1
        /\ LogIdx("into_inner") # {}
        /\ result.bytes = out
        /\ out[Len(out)] = Written("trailer", 0)

\* C2's case: a conversion of at least two frames has returned Ok.
C2_Witness ==
    /\ result.kind = "Ok"
    /\ Cardinality({i \in LogIdx("send_frame") : log[i].arg # None}) >= 2

\* C3: when a reference to the output buffer other than the orchestrator's
\* own is alive at extraction, the result is an error and carries no bytes;
\* the buffer's contents are returned only from a count of exactly one.
C3_SharedBufferIsAnError ==
    \A x \in LogIdx("into_inner") :
        /\ log[x].arg > 1 => (result.kind = "Err" /\ result.bytes = <<>>)
        /\ result.kind = "Ok" => (log[x].arg = 1 /\ result.bytes = out)

\* C3's case: the extraction ran on a non-empty buffer the muxer's two
\* callbacks still shared, and failed.
C3_Witness ==
    /\ pc = "done"
    /\ out # <<>>
    /\ \E x \in LogIdx("into_inner") : log[x].arg = 3
    /\ result.kind = "Err"

\* C4: the buffer has three strong references while the muxer lives; where
\* write_trailer succeeded the muxer and both callbacks are dropped before
\* the extraction, which so finds a count of exactly 1 and never fails with
\* the ownership error.
C4_UniqueAtExtraction ==
    /\ mux.alive => strong = 3
    /\ pc = "extract" => (~mux.alive /\ strong = 1)
    /\ \A x \in LogIdx("into_inner") : log[x].arg = 1 /\ log[x].ans = "Some"
    /\ (pc = "done" /\ mux.trailer = 1) => result.kind = "Ok"
    /\ result.why # "Failed to get buffer"

\* C4's case: write_trailer succeeded and the extraction has run.
C4_Witness ==
    /\ pc = "done"
    /\ mux.trailer = 1
    /\ LogIdx("into_inner") # {}

\* C5: when the demuxer reports end of stream, the next thing sent to the
\* decoder is the flush signal; no flush signal is sent before every packet
\* of the selected stream has been sent to the decoder, and no packet is
\* sent after the first flush signal.
C5_FlushAfterAllPackets ==
    /\ \A e \in EofIdx :
        IF e = Len(log)
        THEN pc = "nf_send" /\ packet = None
        ELSE log[e + 1].op = "send_packet" /\ log[e + 1].arg = None
    /\ \A i \in FlushIdx :
        /\ \A p \in DOMAIN pkts :
            Selected(p) =>
                \E j \in LogIdx("send_packet") : j < i /\ log[j].arg = p
        /\ \A j \in LogIdx("send_packet") : j > i => log[j].arg = None

\* C5's case: a flush signal was sent after packets of the stream, in an
\* input that also holds a packet of another stream.
C5_Witness ==
    /\ FlushIdx # {}
    /\ \E p, q \in DOMAIN pkts :
        /\ Selected(p)
        /\ pkts[q] \in Packets /\ ~Selected(q)
        /\ q < p

\* The next item of the demuxer is a packet of another stream.
OtherStreamNext ==
    /\ pc = "nf_read"
    /\ rd < Len(pkts)
    /\ pkts[rd + 1] \in Packets
    /\ ~Selected(rd + 1)

\* The packets sent to the decoder so far are the packets of the selected
\* stream among the items read, in their order (the last one read may be
\* on its way).
SentAreSelectedRead ==
    LET sent == {i \in LogIdx("send_packet") : log[i].arg # None} IN
    /\ \A i \in sent : Selected(log[i].arg) /\ log[i].arg <= rd
    /\ \A i, j \in sent : i < j => log[i].arg < log[j].arg
    /\ \A p \in 1..rd :
        Selected(p) =>
            \/ \E i \in sent : log[i].arg = p
            \/ pc = "nf_send" /\ packet = p

\* C6: a packet of another stream is never sent to the decoder, and reading
\* it changes only the demuxer's position: the decoder, the buffered frame,
\* the selected stream index and next_frame's result stay as they are and
\* next_frame pulls the following packet; what the decoder is sent is what
\* it would be sent without such packets in the input.
C6_OtherStreamDiscarded ==
    /\ []SentAreSelectedRead
    /\ [][OtherStreamNext =>
            /\ rd' = rd + 1
            /\ pc' = "nf_read"
            /\ UNCHANGED <<dec, frame_buffer, stream_index, packet, nfRet, nfTo>>]_vars

\* C6's case: a packet of another stream was read, and a later packet of
\* the selected stream was then sent to the decoder.
C6_Witness ==
    \E q \in 1..rd :
        /\ pkts[q] \in Packets /\ ~Selected(q)
        /\ \E i \in LogIdx("send_packet") : log[i].arg > q

\* C7: when receive_frame answers "fully flushed", next_frame returns
\* Ok(None) to its caller, and the loop of encode_mp4 that gets Ok(None)
\* goes on to the flush of the encoder without a result being set.
C7_FlushedEndsTheSequence ==
    [][/\ (pc = "nf_recv" /\ ReceiveFrameAnswers(dec) = {"DecoderFlushedError"}) =>
            (nfRet' = RetNone /\ pc' = nfTo /\ result' = result)
       /\ (pc = "loop_ret" /\ nfRet = RetNone) =>
            (pc' = "flush" /\ result' = result)]_vars

\* C7's case: the loop got Ok(None) after the decoder's "fully flushed" and
\* is at the flush of the encoder.
C7_Witness ==
    /\ pc = "flush"
    /\ nfRet = RetNone
    /\ log[Len(log)] = Ev("receive_frame", 0, "DecoderFlushedError")

\* next_frame has returned Ok(None) to the harness.
ReturnedNone == \E i \in DOMAIN rets : rets[i].ret = RetNone

\* C8: once next_frame has returned Ok(None), every later call returns
\* Ok(None) too; from then on no frame is received, the buffered frame is
\* not replaced, the demuxer yields no packet or error, and nothing but the
\* flush signal is sent to the decoder.
C8_FlushedIsTerminal ==
    /\ [](\A i, j \in DOMAIN rets :
            (i < j /\ rets[i].ret = RetNone) => rets[j].ret = RetNone)
    /\ [][ReturnedNone =>
            /\ frame_buffer' = frame_buffer
            /\ log' # log =>
                LET e == log'[Len(log')] IN
                /\ e.arg = None
                /\ e.op = "read_packet" => e.ans = "None"
                /\ e.op = "receive_frame" => e.ans = "DecoderFlushedError"]_vars

\* C8's case: frames were returned, then Ok(None), and a later call has
\* returned again.
C8_Witness ==
    \E i, j, k \in DOMAIN rets :
        /\ i < j /\ j < k
        /\ rets[i].ret.kind = "Some"
        /\ rets[j].ret = RetNone

\* The frames the decoder held when the demuxer first reported end of
\* stream: those of the packets it had accepted, less those received.
EofBuf ==
    LET eof == CHOOSE e \in EofIdx : \A x \in EofIdx : e <= x
        taken == {log[j].arg : j \in {x \in LogIdx("send_packet") :
                     x < eof /\ log[x].arg # None /\ log[x].ans = "Ok"
                     /\ pkts[log[x].arg].kind = "ok"}}
        given == {log[j].arg : j \in {x \in LogIdx("receive_frame") :
                     x < eof /\ log[x].ans = "Ok"}}
    IN  SortedSeq(taken \ given)

\* C9: the calls of next_frame that return after the demuxer reported end
\* of stream return the frames the decoder still held, one per call, each
\* once and in the decoder's order, and Ok(None) from then on; none of them
\* returns an error.
C9_DrainAfterEof ==
    \A i \in DOMAIN rets :
        rets[i].eof =>
            LET first == CHOOSE k \in DOMAIN rets :
                             rets[k].eof /\ \A x \in 1..(k - 1) : ~rets[x].eof
                n == i - first + 1
            IN  rets[i].ret = IF n <= Len(EofBuf) THEN RetSome(EofBuf[n]) ELSE RetNone

\* C9's case: after end of stream the decoder still held two frames; both
\* were returned, then Ok(None), and the flush signal sent again on a later
\* call was answered "already flushed".
C9_Witness ==
    /\ EofIdx # {}
    /\ Len(EofBuf) >= 2
    /\ \E i \in DOMAIN rets : rets[i].eof /\ rets[i].ret = RetNone
    /\ \E j \in FlushIdx : log[j].ans = "DecoderFlushedError"

\* A decoder error that is not one of the signals of the drain protocol.
DecoderFailure(e) ==
    \/ e.op = "send_packet" /\ e.ans \notin {"Ok", "DecoderFlushedError"}
    \/ e.op = "receive_frame"
        /\ e.ans \notin {"Ok", "DecoderDrainError", "DecoderFlushedError"}

\* C10: after a decoder error that is not a signal of the drain protocol,
\* next_frame returns Err and so does video_to_mp4: no call into the backend
\* follows (no packet decoded, no frame encoded, no trailer written, no
\* extraction) and the result carries no bytes.
C10_DecoderErrorIsFatal ==
    \A i \in DOMAIN log :
        DecoderFailure(log[i]) =>
            /\ i = Len(log)
            /\ nfRet = RetErr
            /\ pc \in {"first_ret", "loop_ret", "done"}
            /\ mux.trailer = 0
            /\ pc = "done" => (result.kind = "Err" /\ result.bytes = <<>>)

\* C10's case: the decoder failed after the header and a packet were
\* written, and video_to_mp4 has returned.
C10_Witness ==
    /\ pc = "done"
    /\ Len(out) >= 2
    /\ \E i \in DOMAIN log : DecoderFailure(log[i])

\* The last call into the backend.
LastEv == log[Len(log)]

\* C11: after receive_frame answered "needs more input" next_frame has not
\* returned: the next call is read_packet; a packet of the selected stream
\* that was read is the next thing sent to the decoder; and next_frame
\* returns only Some(frame) straight after the decoder gave that frame,
\* Ok(None) straight after "fully flushed", or Err straight after a failure.
C11_StarvedDecoderIsFed ==
    /\ \A i \in LogIdx("receive_frame") :
        log[i].ans = "DecoderDrainError" =>
            /\ i = Len(log) => (pc = "nf_read" /\ pc # nfTo)
            /\ i < Len(log) => log[i + 1].op = "read_packet"
    /\ \A i \in LogIdx("read_packet") :
        (log[i].ans = "Some" /\ Selected(log[i].arg)) =>
            /\ i = Len(log) => pc = "nf_send"
            /\ i < Len(log) =>
                (log[i + 1].op = "send_packet" /\ log[i + 1].arg = log[i].arg)
    /\ (pc = nfTo /\ log # <<>>) =>
        \/ nfRet.kind = "Some" /\ LastEv = Ev("receive_frame", nfRet.frame, "Ok")
        \/ nfRet.kind = "None"
            /\ LastEv = Ev("receive_frame", 0, "DecoderFlushedError")
        \/ nfRet.kind = "Err"
            /\ \/ LastEv.op = "read_packet" /\ LastEv.ans = "Err"
               \/ DecoderFailure(LastEv)

\* C11's case: the decoder asked for more input, the next packet of the
\* stream was read and sent, and next_frame then returned a frame.
C11_Witness ==
    /\ pc = nfTo
    /\ nfRet.kind = "Some"
    /\ \E i \in LogIdx("receive_frame") :
        /\ log[i].ans = "DecoderDrainError"
        /\ i + 2 <= Len(log)
        /\ log[i + 1].op = "read_packet"
        /\ log[i + 1].ans = "Some"
        /\ Selected(log[i + 1].arg)
        /\ log[i + 2].op = "send_packet"

\* A frame next_frame yielded; a frame sent to the encoder.
IsYield(e) == e.op = "receive_frame" /\ e.ans = "Ok"
IsFrameSend(e) == e.op = "send_frame" /\ e.arg # None
IsYieldOrFrameSend(e) == IsYield(e) \/ IsFrameSend(e)

\* The frames next_frame yielded and the frames sent to the encoder, in order.
FramesYielded == LET S == SelectSeq(log, IsYield) IN [k \in 1..Len(S) |-> S[k].arg]
FramesSent == LET S == SelectSeq(log, IsFrameSend) IN [k \in 1..Len(S) |-> S[k].arg]

\* C12: the frames sent to the encoder are the frames next_frame yielded, in
\* the same order, each once and before the next one is pulled (yields and
\* sends alternate, every send being of the frame just yielded, and every
\* yield being of a later frame of the input than the yield before); a
\* conversion that returned Ok has sent every frame yielded, as many as the
\* decoder was given packets.
C12_FramesSentAreFramesYielded ==
    LET E == SelectSeq(log, IsYieldOrFrameSend)
        odd(k) == k % 2 = 1
    IN
    /\ \A k \in 1..Len(E) :
        /\ odd(k) => IsYield(E[k])
        /\ ~odd(k) => (IsFrameSend(E[k]) /\ E[k].arg = E[k - 1].arg)
        /\ k > 2 => E[k].arg > E[k - 2].arg
    /\ result.kind = "Ok" =>
        /\ ~odd(Len(E))
        /\ FramesSent = FramesYielded
        /\ \A k \in 1..Len(E) : E[k].ans = "Ok"
        /\ Len(FramesSent) =
            Cardinality({i \in LogIdx("send_packet") :
                            log[i].arg # None /\ log[i].ans = "Ok"})

\* C12's case: a conversion returned Ok after two frames were yielded and
\* sent.
C12_Witness ==
    /\ result.kind = "Ok"
    /\ Len(FramesYielded) = 2
    /\ Len(FramesSent) = 2

\* A call on the encoder or on the interleaved writer.
IsEncEv(e) == e.op \in {"send_frame", "receive_packet", "write_packet"}

\* C13: a send_frame that is not the first follows a receive_packet that
\* answered "needs more input" or "fully flushed"; a send_frame that
\* succeeded is followed by receive_packet; a packet received is the very
\* next thing written; nothing is written but the packet just received; and
\* the packet at the interleaved writer carries the output stream's index
\* and timestamps in the output stream's time base.
C13_DrainStampWriteOnce ==
    /\ LET E == SelectSeq(log, IsEncEv) IN
        \A k \in 2..Len(E) :
            E[k].op = "send_frame" =>
                /\ E[k - 1].op = "receive_packet"
                /\ E[k - 1].ans \in {"EncoderDrainError", "EncoderFlushedError"}
    /\ \A i \in LogIdx("send_frame") :
        (log[i].ans = "Ok" /\ i < Len(log)) => log[i + 1].op = "receive_packet"
    /\ \A i \in LogIdx("receive_packet") :
        log[i].ans = "Ok" =>
            /\ i = Len(log) => (pc \in {"ew_stamp", "ew_write"} /\ epkt.id = log[i].arg)
            /\ i < Len(log) =>
                (log[i + 1].op = "write_packet" /\ log[i + 1].arg = log[i].arg)
    /\ \A j \in LogIdx("write_packet") :
        /\ j > 1
        /\ log[j - 1] = Ev("receive_packet", log[j].arg, "Ok")
    /\ pc = "ew_stamp" => (epkt.si = -1 /\ epkt.tb = "encoder")
    /\ pc = "ew_write" => (epkt.si = 0 /\ mux.streams = 1 /\ epkt.tb = "stream")

\* C13's case: two frames were sent, the encoder was drained after each, and
\* a received packet stands stamped at the interleaved writer.
C13_Witness ==
    /\ pc = "ew_write"
    /\ Cardinality(LogIdx("send_frame")) >= 2
    /\ Cardinality(LogIdx("write_packet")) >= 1

\* A call into the backend that failed: an answer the code does not take
\* for a success or for a signal of a drain protocol, -22 on a write apart.
FailureEv(e) ==
    \/ e.ans = "Err"
    \/ e.op = "find_best_stream" /\ e.ans = "None"
    \/ e.op = "read_packet" /\ e.ans = "Err"
    \/ DecoderFailure(e)
    \/ e.op = "send_frame" /\ e.ans # "Ok"
    \/ e.op = "receive_packet"
        /\ e.ans \notin {"Ok", "EncoderDrainError", "EncoderFlushedError"}
    \/ e.op = "write_packet" /\ e.ans = "InterleavedWriteFrameError"
    \/ e.op = "into_inner" /\ e.ans = "None"

InOut(u) == \E k \in DOMAIN out : out[k] = u

\* C14: a write that failed with -22 leaves the packet out of the output,
\* encode_write_frame goes on with receive_packet and has not returned, and
\* a conversion in which nothing else failed ends Ok; a write that failed
\* with another code is the last call into the backend, leaves the packet
\* out of the output, makes encode_write_frame return Err and the
\* conversion end Err.
C14_OnlyInvalidArgumentIsTolerated ==
    /\ \A j \in LogIdx("write_packet") :
        /\ log[j].ans = "InterleavedWriteFrameError(-22)" =>
            /\ ~InOut(Written("packet", log[j].arg))
            /\ j = Len(log) => (pc = "ew_recv" /\ result = NoResult)
            /\ j < Len(log) => log[j + 1].op = "receive_packet"
        /\ log[j].ans = "InterleavedWriteFrameError" =>
            /\ ~InOut(Written("packet", log[j].arg))
            /\ j = Len(log)
            /\ ewRet = Err
            /\ pc \in {ewTo, "done"}
            /\ pc = "done" => (result.kind = "Err" /\ result.bytes = <<>>)
    /\ (pc = "done" /\ \A i \in DOMAIN log : ~FailureEv(log[i])) =>
        \/ result.kind = "Ok"
        \/ result.why = "Failed to get first frame"

\* C14's case: a write failed with -22 and the conversion returned Ok with
\* another packet in its output.
C14_Witness ==
    /\ result.kind = "Ok"
    /\ \E j \in LogIdx("write_packet") : log[j].ans = "InterleavedWriteFrameError(-22)"
    /\ \E k \in DOMAIN out : out[k].what = "packet"

\* The flushes sent to the encoder: send_frame(None).
EncFlushIdx == {i \in LogIdx("send_frame") : log[i].arg = None}

\* C15: at most one flush is sent to the encoder; it is sent after the
\* decoder's sequence has ended and every frame it yielded has been sent,
\* it is the last send_frame, and it comes before write_trailer; where the
\* trailer is written the flush has been sent and has succeeded, the
\* encoder holds no packet, and every packet it gave, those after the flush
\* included, has been passed to the writer before the trailer.
C15_OneFlushBeforeTrailer ==
    LET sends == LogIdx("send_frame")
        flushes == {i \in sends : log[i].arg = None}
        trailers == LogIdx("write_trailer")
        writes == LogIdx("write_packet")
    IN
    /\ Cardinality(flushes) <= 1
    /\ \A f \in flushes :
        /\ \A i \in sends : i # f => (i < f /\ log[i].arg # None /\ log[i].ans = "Ok")
        /\ \E r \in LogIdx("receive_frame") :
            r < f /\ log[r].ans = "DecoderFlushedError"
        /\ FramesSent = FramesYielded
        /\ \A t \in trailers : f < t
    /\ \A t \in trailers :
        /\ \E f \in flushes : f < t /\ log[f].ans = "Ok"
        /\ enc.buf = <<>>
        /\ \A p \in LogIdx("receive_packet") :
            log[p].ans = "Ok" => (p + 1 < t /\ log[p + 1].op = "write_packet")
        /\ \A i \in sends :
            log[i].arg # None => \E w \in writes : w < t /\ log[w].arg = log[i].arg

\* C15's case: the encoder gave a packet after the flush, and the trailer
\* was written.
C15_Witness ==
    /\ LogIdx("write_trailer") # {}
    /\ \E f \in EncFlushIdx :
        \E p \in LogIdx("receive_packet") : f < p /\ log[p].ans = "Ok"

\* C16: a call into the backend that failed has no successor in the log: it
\* is not tried again and no later operation of the pipeline runs; the
\* functions on the way only return, and video_to_mp4 ends with Err; a
\* result that is Err carries no bytes, whatever the buffer holds.  (Every
\* log is the log of an earlier state with one call appended, so that the
\* last call but one never failed means that no call but the last did.)
C16_ErrorsEndTheCall ==
    /\ Len(log) >= 2 => ~FailureEv(log[Len(log) - 1])
    /\ (log # <<>> /\ FailureEv(LastEv)) =>
        /\ pc \in {"first_ret", "loop_ret", "encoded", "flushed", "done"}
        /\ pc \in {"first_ret", "loop_ret"} => nfRet.kind = "Err"
        /\ pc \in {"encoded", "flushed"} => ewRet = Err
        /\ result.kind # "Ok"
        /\ pc = "done" => result.kind = "Err"
    /\ result.kind = "Err" =>
        /\ pc = "done"
        /\ result.bytes = <<>>
        /\ \/ log # <<>> /\ FailureEv(LastEv)
           \/ result.why = "Failed to get first frame"

\* C16's case: the conversion ended with Err on a failed write when the
\* buffer already held the header and a packet.
C16_Witness ==
    /\ pc = "done"
    /\ result.kind = "Err"
    /\ Len(out) >= 2
    /\ LastEv.op = "write_packet"

\* C17: where a frame is about to be sent to the encoder: a source frame in
\* the encoder's format is sent itself; any other is sent as dst_frame,
\* which then holds the picture the scaler just made of that source frame,
\* in the encoder's format and size; either way the frame sent has the pts
\* of the source frame.  dst_frame is allocated at most once, before any
\* frame is scaled or sent, and a frame is scaled exactly when its format
\* is not the encoder's.
C17_SameFrameOrScratchWithPts ==
    LET sends == LogIdx("send_frame")
        allocs == LogIdx("alloc_buffer")
    IN
    /\ (pc = "ew_send" /\ frame_after # NoFrame) =>
        LET sent == Deref(frame_after) IN
        /\ FrameFormat(src_frame) = enc.pix_fmt => frame_after = TheSrc(src_frame)
        /\ FrameFormat(src_frame) # enc.pix_fmt =>
            /\ frame_after = TheDst
            /\ LastEv = Ev("scale_frame", src_frame, "Ok")
            /\ sent.format = enc.pix_fmt
            /\ sent.width = enc.width
            /\ sent.height = enc.height
        /\ sent.data = src_frame
        /\ sent.pts = FramePts(src_frame)
        /\ dst_frame.allocs = 1
    /\ dst_frame.allocs <= 1
    /\ Cardinality(allocs) <= 1
    /\ \A i \in sends \cup LogIdx("scale_frame") :
        \E a \in allocs : a < i /\ log[a].ans = "Ok"
    /\ \A i \in sends :
        log[i].arg # None =>
            (FrameFormat(log[i].arg) # EncoderFormat
                <=> log[i - 1] = Ev("scale_frame", log[i].arg, "Ok"))

\* C17's case: the first frame was sent as it was, and the second, of
\* another format, is about to be sent as the scratch frame.
C17_Witness ==
    /\ pc = "ew_send"
    /\ src_frame = 2
    /\ frame_after = TheDst
    /\ \E i \in LogIdx("send_frame") :
        /\ log[i].arg = 1
        /\ log[i].ans = "Ok"
        /\ log[i - 1].op # "scale_frame"

\* A call next_frame makes; a call that sets the encoder up.
IsNextFrameEv(e) == e.op \in {"read_packet", "send_packet", "receive_frame"}
IsEncoderSetup(e) == e.op \in {"find_encoder", "configure", "open_encoder"}
IsNextFrameOrSetup(e) == IsNextFrameEv(e) \/ IsEncoderSetup(e)

\* C18: among the calls of next_frame and the calls that set the encoder
\* up: a set-up call follows another one or the first yield of next_frame,
\* which gave first_frame; none is made twice; the first yield is followed
\* by a set-up call, and a call of next_frame that follows a set-up call
\* follows the successful opening of the encoder.  The encoder has the
\* width and height of the first frame yielded, the time base and frame
\* rate of the decoder context and the format YUV420P, whatever frame is
\* being encoded.
C18_EncoderSetUpOnceFromFirstFrame ==
    LET N == SelectSeq(log, IsNextFrameOrSetup)
        setups == {k \in 1..Len(N) : IsEncoderSetup(N[k])}
    IN
    /\ \A k \in setups :
        /\ k > 1
        /\ \/ IsEncoderSetup(N[k - 1])
           \/ /\ N[k - 1] = Ev("receive_frame", first_frame, "Ok")
              /\ \A j \in 1..(k - 2) : ~IsYield(N[j])
        /\ \A j \in setups : N[j].op = N[k].op => j = k
        /\ (k < Len(N) /\ IsNextFrameEv(N[k + 1])) => N[k] = Ev("open_encoder", 0, "Ok")
    /\ \A k \in 1..(Len(N) - 1) :
        (IsYield(N[k]) /\ IsNextFrameEv(N[k + 1])) => \E j \in setups : j < k
    /\ enc.state # "none" =>
        /\ first_frame = FramesYielded[1]
        /\ enc.width = FrameWidth(first_frame)
        /\ enc.height = FrameHeight(first_frame)
        /\ enc.time_base = dec.time_base
        /\ enc.framerate = dec.framerate
        /\ enc.time_base = StreamTimeBase
        /\ enc.framerate = StreamFrameRate
        /\ enc.pix_fmt = EncoderFormat

\* C18's case: the second frame, of another size than the first, is about
\* to be sent to the encoder.
C18_Witness ==
    /\ pc = "ew_send"
    /\ enc.state = "open"
    /\ src_frame # first_frame
    /\ FrameWidth(src_frame) # enc.width
    /\ frame_after = TheSrc(src_frame)

\* The position a seek asks for, for SEEK_SET, SEEK_CUR and SEEK_END.
AskedFor(c) ==
    CASE c.whence = 0 -> c.arg
      [] c.whence = 1 -> c.from + c.arg
      [] OTHER -> Len(data) + c.arg

\* C19: the cursor lies within [0, len] after any sequence of reads and
\* seeks, and a seek that asks for a position outside [0, len] answers a
\* negative number.
C19_CursorWithinInput ==
    /\ cur \in 0..Len(data)
    /\ (called.op = "seek" /\ called.whence \in {0, 1, 2}
            /\ AskedFor(called) \notin 0..Len(data)) => called.ret < 0

\* C20: a seek with whence = AVSEEK_SIZE answers the length of the input,
\* whatever its offset and wherever the cursor is, and leaves the cursor
\* where it was; a read that follows it starts there and gets the bytes a
\* read of that size gets from there.
C20_SizeQueryLeavesCursor ==
    [][/\ (called'.op = "seek" /\ called'.whence = AVSEEK_SIZE) =>
            /\ called'.ret = Len(data)
            /\ cur' = cur
       /\ (called.op = "seek" /\ called.whence = AVSEEK_SIZE /\ called'.op = "read") =>
            /\ called'.from = called.from
            /\ called'.bytes =
                  IF called.from < Len(data)
                  THEN ReadBytes(data, called.from, called'.arg) ELSE <<>>
            /\ called.from < Len(data) => called'.bytes # <<>>]_vars

\* C20's case: the size of a two-byte input was asked for with an offset
\* that is not 0 and the cursor in the middle of the input.
C20_Witness ==
    /\ called.op = "seek"
    /\ called.whence = AVSEEK_SIZE
    /\ called.arg = MaxOff
    /\ called.from = 1
    /\ called.ret = 2
    /\ cur = 1

\* The n bytes of the input that follow position c.
Source(c, n) == [k \in 1..n |-> data[c + k]]

\* C21: a read with the cursor at or past the end of the input answers
\* AVERROR_EOF, delivers nothing and leaves the cursor; any other read of
\* a buffer of `arg` bytes delivers the n = min(arg, len - c) bytes that follow
\* the cursor c, answers n and moves the cursor to c + n.  So the reads made
\* since the cursor was last set, at `run.from`, have delivered the bytes that
\* follow that position, each once and in order; end of file is answered only
\* when all of them were delivered, and nothing is delivered after it.
C21_ReadsDeliverEachByteOnce ==
    /\ called.op = "read" =>
        IF called.from >= Len(data)
        THEN /\ called.ret = AVERROR_EOF
             /\ called.bytes = <<>>
             /\ cur = called.from
        ELSE LET n == Min(called.arg, Len(data) - called.from) IN
             /\ n >= 1
             /\ called.ret = n
             /\ called.bytes = Source(called.from, n)
             /\ cur = called.from + n
    /\ cur = run.from + Len(run.bytes)
    /\ run.bytes # <<>> =>
        /\ cur <= Len(data)
        /\ run.bytes = Source(run.from, Len(run.bytes))
    /\ run.eof => cur >= Len(data)
    /\ ~run.late
    /\ (run.from = 0 /\ run.eof) => run.bytes = data

\* A two-byte input was read from its start in two reads of one byte, and the
\* read after them answered end of file.
C21_Witness ==
    /\ data = <<0, 255>>
    /\ run = [from |-> 0, bytes |-> <<0, 255>>, eof |-> TRUE, late |-> FALSE]
    /\ called.op = "read"
    /\ called.arg = 1
    /\ called.ret = AVERROR_EOF
    /\ cur = 2

\* A seek that is not the size query and does not succeed: its whence is none
\* of SEEK_SET, SEEK_CUR and SEEK_END, or the position it asks for is negative.
SeekFails(c) ==
    /\ c.op = "seek"
    /\ c.whence # AVSEEK_SIZE
    /\ (c.whence \notin {0, 1, 2} \/ AskedFor(c) < 0)

\* A seek to a position that is not negative, from the start, the cursor or
\* the end.
SeekSucceeds(c) ==
    /\ c.op = "seek"
    /\ c.whence \in {0, 1, 2}
    /\ AskedFor(c) >= 0

\* C22: a seek that fails (negative target, or a whence that is none of
\* SEEK_SET, SEEK_CUR, SEEK_END and AVSEEK_SIZE) answers a negative number and
\* leaves the cursor where it was; a seek that succeeds answers the position
\* it asked for, and the read that follows starts at that position, whose
\* cursor is the one the seek stored.
C22_FailedSeekLeavesCursor ==
    [][/\ SeekFails(called') =>
            /\ called'.ret < 0
            /\ called'.from = cur
            /\ cur' = cur
            /\ run' = run
       /\ SeekSucceeds(called') =>
            /\ called'.ret = AskedFor(called')
            /\ called'.from = cur
            /\ cur' = called'.ret
       /\ (SeekSucceeds(called) /\ called'.op = "read") =>
            /\ called'.from = called.ret
            /\ called'.bytes =
                  IF called.ret < Len(data)
                  THEN Source(called.ret, Min(called'.arg, Len(data) - called.ret))
                  ELSE <<>>
       /\ (SeekFails(called) /\ called'.op = "read") =>
            called'.from = called.from]_vars

\* C22's case: with the cursor in the middle of a two-byte input, a seek to
\* three bytes before its end was refused.
C22_Witness ==
    /\ Len(data) = 2
    /\ called.op = "seek"
    /\ called.whence = 2
    /\ called.arg = -3
    /\ called.from = 1
    /\ called.ret = -1
    /\ cur = 1
    /\ run.bytes # <<>>

\* The packets of the input that belong to the stream find_best_stream picks.
OfBest == {p \in DOMAIN pkts : pkts[p] \in Packets /\ pkts[p].si = best}

\* An input whose video stream decodes to exactly one frame: one packet of
\* that stream, which the decoder accepts.
OneFrameInput == Cardinality(OfBest) = 1 /\ \A p \in OfBest : pkts[p].kind = "ok"

NothingFailed == \A i \in DOMAIN log : ~FailureEv(log[i])

IsMilestone(e) == e.op \in {"write_header", "send_frame", "write_trailer", "into_inner"}

\* C23: the conversion of an input whose video stream decodes to exactly one
\* frame, in which no call into the backend failed, returns Ok with the bytes
\* of the output: the header was written, then that one frame was sent to the
\* encoder, then the flush, then the trailer was written and the buffer taken.
\* One frame is not by itself an error.
C23_OneFrameIsConverted ==
    (pc = "done" /\ OneFrameInput /\ NothingFailed) =>
        LET M == SelectSeq(log, IsMilestone) IN
        /\ result.kind = "Ok"
        /\ result.bytes = out
        /\ [k \in 1..Len(M) |-> M[k].op] =
              <<"write_header", "send_frame", "send_frame", "write_trailer", "into_inner">>
        /\ M[2].arg \in OfBest
        /\ M[3].arg = None
        /\ FramesYielded = <<M[2].arg>>
        /\ out[1] = Written("header", 0)
        /\ out[Len(out)] = Written("trailer", 0)

\* A conversion of an input of two packets, one of them of the video stream,
\* has returned Ok after sending one frame.
C23_Witness ==
    /\ pc = "done"
    /\ OneFrameInput
    /\ Len(pkts) = 2
    /\ result.kind = "Ok"
    /\ FramesSent = <<2>>

\* C24: with an input that has no video stream the conversion ends with Err:
\* once the input was opened, the error is decode_video's "Failed to find the
\* best stream", raised by the answer of find_best_stream, which is the last
\* call into the backend.  No decoder is opened, no frame asked for, no output
\* context created and nothing written; no other step is taken.
C24_NoVideoStreamIsAnError ==
    best = -1 =>
        /\ pc \in {"open_input", "decode_video", "done"}
        /\ \A i \in DOMAIN log : log[i].op \in {"open_input", "find_best_stream"}
        /\ Len(log) <= 2
        /\ out = <<>>
        /\ mux = MuxNone
        /\ enc = EncoderNone
        /\ pc = "done" =>
            /\ result.kind = "Err"
            /\ result.bytes = <<>>
            /\ IF LastEv.op = "find_best_stream"
               THEN /\ LastEv.ans = "None"
                    /\ log[1] = Ev("open_input", 0, "Ok")
                    /\ result.why = "Failed to find the best stream"
               ELSE LastEv = Ev("open_input", 0, "Err") /\ result.why = "open_input"

\* The conversion of an input of two packets that has no video stream has
\* ended, after find_best_stream found none.
C24_Witness ==
    /\ best = -1
    /\ Len(pkts) = 2
    /\ pc = "done"
    /\ result.why = "Failed to find the best stream"
    /\ LastEv.op = "find_best_stream"

\* The decoder refused a packet.
Rejected(e) == e.op = "send_packet" /\ e.ans \notin {"Ok", "DecoderFlushedError"}

\* C25: every conversion comes to its end, with Ok or Err, wherever a corrupt
\* packet lies in the input; and a packet the decoder refused is the last
\* packet read and its refusal the last call into the backend: next_frame is
\* returning Err, and the conversion ends with Err.
C25_ConversionTerminates ==
    /\ <>(pc = "done" /\ result.kind \in {"Ok", "Err"})
    /\ [](/\ Len(log) >= 2 => ~Rejected(log[Len(log) - 1])
          /\ (log # <<>> /\ Rejected(LastEv)) =>
                /\ rd = LastEv.arg
                /\ pc \in {"first_ret", "loop_ret", "done"}
                /\ pc # "done" => nfRet.kind = "Err"
                /\ pc = "done" => result.kind = "Err")

\* The second of two packets was refused by the decoder, after the first was
\* decoded and its frame encoded, and the conversion has ended with Err.
C25_Witness ==
    /\ pc = "done"
    /\ result.kind = "Err"
    /\ Len(pkts) = 2
    /\ rd = 2
    /\ pkts[2].kind = "badsend"
    /\ log # <<>>
    /\ Rejected(LastEv)
    /\ Len(FramesSent) = 1

\* upgrade_image_url returns None exactly where the change would be a
\* downgrade, and with nothing required a URL that is neither large nor on
\* sinaimg comes back as it was, for the jandan referer.
UpgradeNeverDowngrades ==
    pc = "upgraded" =>
        LET is_large == Contains(url, LARGE)
            is_sina == Contains(url, SINAIMG)
        IN  /\ upgraded.kind = "None" <=>
                  \/ is_large /\ ~require_large_image
                  \/ is_sina /\ ~require_sinaimg
            /\ (~require_large_image /\ ~require_sinaimg /\ ~is_large /\ ~is_sina) =>
                  upgraded = [kind |-> "Some", url |-> url, referer |-> "https://jandan.net/"]
            /\ upgraded.kind = "Some" =>
                  /\ Contains(url, LARGE) => Contains(upgraded.url, LARGE)
                  /\ Contains(url, SINAIMG) => Contains(upgraded.url, SINAIMG)

\* C26: upgrade_image_url returns None exactly when the URL is large and a
\* large image is not required, or is on sinaimg and sinaimg is not required;
\* otherwise the URL it returns is large if a large image is required and on
\* sinaimg if sinaimg is required; and with nothing required a URL that is
\* neither is returned unchanged.
C26_UpgradeMeetsRequirements ==
    /\ UpgradeNeverDowngrades
    /\ (pc = "upgraded" /\ upgraded.kind = "Some") =>
          /\ require_large_image => Contains(upgraded.url, LARGE)
          /\ require_sinaimg => Contains(upgraded.url, SINAIMG)

\* The entities of a parsed comment are in source order, do not overlap,
\* cover every byte of the comment, and no Text among them is empty.
Partition(es, len) ==
    /\ \A k \in DOMAIN es : es[k].start < es[k].end
    /\ es # <<>> => es[1].start = 0 /\ es[Len(es)].end = len
    /\ es = <<>> => len = 0
    /\ \A k \in 1..(Len(es) - 1) : es[k].end = es[k + 1].start

\* C27: parse_comment returns for every comment, its "overlap" assertion
\* holding whatever the three rules matched, and the entities it returns are
\* sorted by start, pairwise disjoint, cover every byte of the comment and
\* hold no empty Text.
C27_EntitiesPartitionTheComment ==
    pc = "parsed" =>
        /\ parsed.kind = "Ok"
        /\ Partition(parsed.entities, Len(comment))

\* Where parse_comment returns, its entities partition the comment.
ParsedIsPartition ==
    (pc = "parsed" /\ parsed.kind = "Ok") => Partition(parsed.entities, Len(comment))

\* C28: http::request sends at most three times; every answer but the last
\* is a timeout with attempts left, after which it sends again; it returns
\* the first response, a non-timeout error at once, and the timeout of the
\* third attempt when all three timed out; what it returns is the last
\* answer of send(); and unreachable!() is not reached.
C28_AtMostThreeAttempts ==
    /\ Len(tries) <= ATTEMPTS
    /\ Len(tries) = ATTEMPTS - attempt - (IF pc = "send" THEN 1 ELSE 0)
    /\ pc # "unreachable"
    /\ \A k \in 1..(Len(tries) - 1) : IsTimeout(tries[k])
    /\ pc \in {"delay", "for", "send"} => \A k \in DOMAIN tries : IsTimeout(tries[k])
    /\ pc = "delay" => Len(tries) < ATTEMPTS
    /\ pc = "returned" =>
          /\ tries # <<>>
          /\ httpRet = tries[Len(tries)]
          /\ IsTimeout(httpRet) => Len(tries) = ATTEMPTS
    /\ pc # "returned" => httpRet = NotReturned

\* Three sends timed out and the third timeout was returned.
C28_Witness ==
    /\ pc = "returned"
    /\ Len(tries) = ATTEMPTS
    /\ \A k \in DOMAIN tries : IsTimeout(tries[k])
    /\ httpRet = [kind |-> "Err", value |-> "timeout"]
    /\ attempt = 0

\* What of main's loop holds for every page: an id is appended to the file
\* only for the pic at hand, after its two uploads and send_pic returned Ok,
\* and the file holds the ids it held at the start followed by the ids
\* appended, which are the ids pushed to new_pics.
AppendedAfterSuccess ==
    /\ pc = "push" =>
          /\ okFor = {"images", "mentions", "send_pic"}
          /\ history_text[Len(history_text)] = pics[pic]
          /\ sentNow[Len(sentNow)] = pics[pic]
    /\ pc \in {"spider", "for", "images", "mentions", "send_pic", "write", "push",
               "truncate"} =>
          Lines(history_text) =
              Lines(started) \o new_pics \o (IF pc = "push" THEN <<pics[pic]>> ELSE <<>>)
    /\ pc \in {"images", "mentions", "send_pic"} => ~Contained(Lines(started), pics[pic])

\* No id is twice on the page.
DistinctPics == \A i, j \in DOMAIN pics : pics[i] = pics[j] => i = j

\* send_pic is called for no id the file holds, where no id is twice on the
\* page.
SentOnceIfDistinct ==
    (pc = "send_pic" /\ DistinctPics) => ~Contained(Lines(history_text), pics[pic])

\* C29: send_pic is called for no id that the history file holds at that
\* moment, ids appended earlier in the same run included; and an id is
\* appended only after upload_comment_images, upload_comment_mentions and
\* send_pic returned Ok for that pic.
C29_SentOncePerRecordedId ==
    /\ pc = "send_pic" => ~Contained(Lines(history_text), pics[pic])
    /\ AppendedAfterSuccess

\* The last n entries of a sequence, all of them if it has fewer.
LastOf(s, n) == SubSeq(s, Len(s) - Min(Len(s), n) + 1, Len(s))

\* C30: when main has returned Ok the history file holds the last
\* min(n, HISTORY_SOFT_LIMIT) of the n ids made of the ids the file held at
\* the start followed by the ids sent in this run, in that order, one a
\* line: at most HISTORY_SOFT_LIMIT ids, and every id sent in this run unless
\* more than HISTORY_SOFT_LIMIT were sent.
C30_HistoryKeepsTheLastHundred ==
    (pc = "exit" /\ mainRet = "Ok") =>
        /\ history_text = LastOf(Lines(started) \o sentNow, HISTORY_SOFT_LIMIT)
        /\ Len(Lines(history_text)) <= HISTORY_SOFT_LIMIT
        /\ Len(sentNow) <= HISTORY_SOFT_LIMIT =>
              \A k \in DOMAIN sentNow : Contained(Lines(history_text), sentNow[k])

\* main found 99 ids, sent two pics and returned Ok: the file holds 100 ids,
\* the oldest of the 99 is gone and the two sent are the last.
C30_Witness ==
    /\ pc = "exit"
    /\ mainRet = "Ok"
    /\ Len(Lines(started)) = HISTORY_SOFT_LIMIT - 1
    /\ Len(sentNow) = 2
    /\ Len(history_text) = HISTORY_SOFT_LIMIT
    /\ history_text[1] = 2
    /\ SubSeq(history_text, HISTORY_SOFT_LIMIT - 1, HISTORY_SOFT_LIMIT) = sentNow

\* What format_caption was given, in order: the post, then every hot comment,
\* each with the number of characters it is formatted to.
Given(p) ==
    <<Piece(0, HeaderChars(p))>> \o [k \in 1..Len(p.hot) |-> Piece(k, FormattedChars(p.hot[k]))]

\* What of the messages returned holds for every post: put one after the
\* other they are the post and every hot comment, once each and in order.
CaptionsCover == pc = "captioned" => Flatten(msgs) = Given(picArg)

\* A message over the limit is one piece that is over the limit by itself:
\* the function never lengthens a message beyond the limit.
OverLimitIsOnePiece ==
    \A k \in DOMAIN msgs : Count(msgs[k]) > TG_CAPTION_LIMIT => Len(msgs[k]) = 1

\* C32: every message format_caption returns has at most TG_CAPTION_LIMIT
\* characters, and the messages put one after the other are the post header
\* and every hot comment, once each and in order.
C32_CaptionsFitAndCover ==
    pc = "captioned" =>
        /\ \A k \in DOMAIN msgs : Count(msgs[k]) <= TG_CAPTION_LIMIT
        /\ Flatten(msgs) = Given(picArg)

\* The panics of send_pic and the send functions that the downloads decide.
LogicPanics ==
    {"panic: images is empty", "panic: contains gif", "panic: unwrap on None",
     "panic: error not filtered out, check the logic", "panic: remove(0) of no caption"}

\* C31: whatever the downloads returned, none of the assertions, the expect
\* on a download result and the captions.remove(0) of send_pic and the send
\* functions fails; a post with no image, with a failed download or with a
\* too large image and a gif goes through send_the_old_way; and
\* format_caption returns at least one caption.
C31_SendPicNeverPanics ==
    /\ sendRet \notin LogicPanics
    /\ pc # "send_pic" =>
          /\ Len(msgs) >= 1
          /\ route # "none"
          /\ (images = <<>> \/ ContainsError(images)
                 \/ (ContainsLargeImage(images) /\ ContainsGif(images))) =>
                route = "send_the_old_way"
          /\ route = "send_as_photo_group" =>
                images # <<>> /\ \A k \in DOMAIN images : images[k].ok
          /\ route = "send_document" => ~ContainsGif(images)
    /\ pc = "replies" =>
          /\ Len(captions) < Len(msgs)
          /\ captions = SubSeq(msgs, Len(msgs) - Len(captions) + 1, Len(msgs))

\* A post of a gif, a failed download and two captions went the old way and
\* send_pic returned Ok: three messages for the images, the first caption
\* and a reply.
C31_Witness ==
    /\ pc = "sent"
    /\ sendRet = "Ok"
    /\ route = "send_the_old_way"
    /\ Len(images) = 2
    /\ IsGif(images[1]) /\ ~images[2].ok
    /\ Len(msgs) = 2
    /\ Len(tg) = 4

\* The order the claim gives: (large, sinaimg), (large, original host),
\* (original size, sinaimg), (original size, original host).
FixedOrder == <<<<TRUE, TRUE>>, <<TRUE, FALSE>>, <<FALSE, TRUE>>, <<FALSE, FALSE>>>>

\* The candidates of a URL that are no downgrade, in the fixed order, each
\* as upgrade_image_url gives it.
ToTry(u) ==
    LET up(c) == UpgradeImageUrl(u, c[1], c[2])
        NoDowngrade(c) == up(c).kind = "Some"
        kept == SelectSeq(FixedOrder, NoDowngrade)
    IN  [k \in DOMAIN kept |-> up(kept[k])]

\* C33: download_image tries the candidates that are no downgrade in the
\* fixed order; it returns Ok right after the first download that succeeded,
\* every download before it having failed; and it returns Err only when
\* every such candidate was tried and failed, the error listing each with
\* its failure.
C33_FirstCandidateThatDownloads ==
    LET todo == ToTry(url) IN
    /\ Len(fetched) <= Len(todo)
    /\ \A k \in DOMAIN fetched :
          /\ fetched[k].url = todo[k].url
          /\ fetched[k].referer = todo[k].referer
          /\ fetched[k].ans = "Ok" => (k = Len(fetched) /\ dlRet.kind = "Ok")
    /\ dlRet.kind = "Ok" => (fetched # <<>> /\ fetched[Len(fetched)].ans = "Ok")
    /\ dlRet.kind = "Err" =>
          /\ Len(fetched) = Len(todo)
          /\ fetched # <<>>
          /\ dlRet.errors = [k \in DOMAIN fetched |-> <<fetched[k].url, fetched[k].ans>>]
    /\ pc = "downloaded" <=> dlRet.kind # "none"

\* A thumbnail of img.toto.im: the large image of sinaimg timed out, the
\* large image of the original host was not found, and the third candidate,
\* the original size from sinaimg, was downloaded.
C33_Witness ==
    /\ pc = "downloaded"
    /\ dlRet.kind = "Ok"
    /\ url = <<"img.toto.im", "/", "mw600", "/">>
    /\ Len(fetched) = 3
    /\ fetched[1] = [url |-> <<"tva1.", "sinaimg.cn", "/", "large", "/">>,
                     referer |-> "https://weibo.com/", ans |-> "timeout"]
    /\ fetched[2] = [url |-> <<"img.toto.im", "/", "large", "/">>,
                     referer |-> "https://jandan.net/", ans |-> "status 404"]
    /\ fetched[3].url = <<"tva1.", "sinaimg.cn", "/", "mw600", "/">>

\* The database has an entry for a URL.
Recorded(d, u) == \E e \in d : e.url = u

IsCall(e) == e.ev \notin {"put_img", "return"}

\* The first call of upload_comment_images returned Ok.
FirstOk ==
    \E k \in DOMAIN uploads :
        uploads[k].ev = "return" /\ uploads[k].ok /\ uploads[k].pass = 1

\* What holds of upload_comment_images in every state: after Ok every image
\* of the comments has an entry; an entry is recorded right after a call for
\* its URL was accepted, with the id of that message; and a second call after
\* Ok returns Ok.
UploadedState ==
    /\ upRet = "Ok" =>
          \A k \in DOMAIN entries :
              entries[k].kind = "Img" => Recorded(db, entries[k].url)
    /\ \A k \in DOMAIN uploads :
          uploads[k].ev = "put_img" =>
              /\ k > 1
              /\ IsCall(uploads[k - 1]) /\ uploads[k - 1].ok
              /\ uploads[k - 1].url = uploads[k].url
              /\ uploads[k - 1].id = uploads[k].id
    /\ \A e \in db :
          \/ e \in OldEntries
          \/ \E k \in DOMAIN uploads :
                uploads[k].ev = "put_img" /\ uploads[k].url = e.url /\ uploads[k].id = e.id
    /\ (pass = 2 /\ FirstOk /\ pc = "uploaded") => upRet = "Ok"

\* What holds of every step: a call to Telegram is made only for a URL the
\* database has no entry for; the database changes only by a put_img that
\* adds an entry; and a second call after Ok makes no call and leaves the
\* database as it was.
UploadedStep ==
    LET added == (Len(uploads) + 1)..Len(uploads') IN
    /\ \A k \in added : IsCall(uploads'[k]) => ~Recorded(db, uploads'[k].url)
    /\ db' # db =>
          /\ uploads' # <<>> /\ uploads'[Len(uploads')].ev = "put_img"
          /\ db' = db \cup {[url |-> uploads'[Len(uploads')].url,
                            id |-> uploads'[Len(uploads')].id]}
    /\ (pass = 2 /\ FirstOk) =>
          /\ db' = db
          /\ \A k \in added : uploads'[k].ev = "return"

\* C34: upload_comment_images uploads nothing for a URL that has an entry
\* in the database; when it returns Ok every image URL of the comments has
\* an entry, recorded only after the upload, or the text sent in its place
\* when the download failed, was accepted; and a second call on the same
\* comments sends no message and leaves the database unchanged.
C34_UploadsOncePerImage == [](UploadedState) /\ [][UploadedStep]_vars

\* Two images and an empty database: the first was uploaded as a video, the
\* download of the second failed and its URL was sent as a text, both were
\* recorded, and the second call returned Ok having done nothing.
C34_Witness ==
    /\ pc = "uploaded"
    /\ pass = 2
    /\ upRet = "Ok"
    /\ FirstOk
    /\ Len(uploads) = 6
    /\ uploads[1].ev = "send_video" /\ uploads[2].ev = "put_img"
    /\ uploads[3].ev = "send_message" /\ uploads[4].ev = "put_img"
    /\ uploads[5].ev = "return" /\ uploads[6].ev = "return"
    /\ db = {[url |-> "b.gif", id |-> 1], [url |-> "a.jpg", id |-> 2]}
    /\ Len(entries) = 3

=============================================================================
